---- MODULE Spec2Model ----
(***************************************************************************)
(* The resource deployment step engine of pkg/resource/deploy/step.go.     *)
(*                                                                         *)
(* One resource (one URN) is followed through a deployment: `old` is its   *)
(* state in the prior snapshot (or nil), `new` the desired state the       *)
(* program registered (or nil).  Step constructors check their             *)
(* preconditions (contract.Requiref / contract.Assertf abort the process)  *)
(* and add a step to the pending set; Apply runs one pending step against  *)
(* the provider, whose answers are drawn from small sets; Commit is the    *)
(* executor retiring the step and invoking its completion callback.        *)
(***************************************************************************)
EXTENDS Integers, Sequences, FiniteSets, TLC

VARIABLES
    old,            \* *resource.State of the prior snapshot, or NoState (nil)
    new,            \* *resource.State registered by the program, or NoState
    steps,          \* the steps constructed and not yet applied
    last,           \* the step applied last with what Apply returned, or NoResult
    now,            \* the clock read by time.Now()
    aborted,        \* "" or the constructor/assertion that terminated the process
    budget,         \* constructor calls left in this run
    done,           \* the done channel of the RefreshStep applied last: "none", "open", "closed"
    op,             \* the display.StepOp handed to a presentation helper
    constraint,     \* the display.StepOp handed to ConstrainedTo as its constraint
    shown           \* the helper called last with what it returned, or NoShown

vars == <<old, new, steps, last, now, aborted, budget, done, op, constraint, shown>>

\* The number of step constructions one run of the generator performs.
MaxSteps == 2

(***************************************************************************)
(* Values                                                                  *)
(***************************************************************************)
StatusOK == "ok"
StatusPartialFailure == "partial-failure"
StatusUnknown == "unknown"

OpSame == "same"
OpCreate == "create"
OpUpdate == "update"
OpDelete == "delete"
OpReplace == "replace"
OpCreateReplacement == "create-replacement"
OpDeleteReplaced == "delete-replaced"
OpRead == "read"
OpReadReplacement == "read-replacement"
OpRefresh == "refresh"
OpReadDiscard == "discard"
OpDiscardReplaced == "discard-replaced"
OpRemovePendingReplace == "remove-pending-replace"
OpImport == "import"
OpImportReplacement == "import-replacement"

\* StepOps contains the full set of step operation types.
StepOps ==
    <<OpSame, OpCreate, OpUpdate, OpDelete, OpReplace, OpCreateReplacement, OpDeleteReplaced,
      OpRead, OpReadReplacement, OpRefresh, OpReadDiscard, OpDiscardReplaced,
      OpRemovePendingReplace, OpImport, OpImportReplacement>>

\* the escape sequences of package colors, each a non-empty directive
colors ==
    [SpecUnimportant |-> "<{%fg 8%}>", SpecCreate |-> "<{%fg 2%}>", SpecDelete |-> "<{%fg 1%}>",
     SpecUpdate |-> "<{%fg 3%}>", SpecReplace |-> "<{%fg 13%}>",
     SpecCreateReplacement |-> "<{%fg 10%}>", SpecDeleteReplaced |-> "<{%fg 9%}>",
     SpecRead |-> "<{%fg 14%}>", Reset |-> "<{%reset%}>"]

\* what a helper hands back: a string, or the message of contract.Failf
Returns(str) == [failed |-> "", value |-> str]
Failf(msg) == [failed |-> msg, value |-> ""]

\* Color returns a suggested color for lines of this op type.
Color(o) ==
    CASE o = OpSame -> Returns(colors.SpecUnimportant)
      [] o \in {OpCreate, OpImport} -> Returns(colors.SpecCreate)
      [] o = OpDelete -> Returns(colors.SpecDelete)
      [] o = OpUpdate -> Returns(colors.SpecUpdate)
      [] o = OpReplace -> Returns(colors.SpecReplace)
      [] o = OpCreateReplacement -> Returns(colors.SpecCreateReplacement)
      [] o = OpDeleteReplaced -> Returns(colors.SpecDeleteReplaced)
      [] o = OpRead -> Returns(colors.SpecRead)
      [] o \in {OpReadReplacement, OpImportReplacement} -> Returns(colors.SpecReplace)
      [] o = OpRefresh -> Returns(colors.SpecUpdate)
      [] o \in {OpReadDiscard, OpDiscardReplaced} -> Returns(colors.SpecDelete)
      [] OTHER -> Failf("Unrecognized resource step op: '" \o o \o "'")

\* RawPrefix returns the uncolorized prefix text.
RawPrefix(o) ==
    CASE o = OpSame -> Returns("  ")
      [] o = OpCreate -> Returns("+ ")
      [] o = OpDelete -> Returns("- ")
      [] o = OpUpdate -> Returns("~ ")
      [] o = OpReplace -> Returns("+-")
      [] o = OpCreateReplacement -> Returns("++")
      [] o = OpDeleteReplaced -> Returns("--")
      [] o = OpRead -> Returns("> ")
      [] o = OpReadReplacement -> Returns(">>")
      [] o = OpRefresh -> Returns("~ ")
      [] o = OpReadDiscard -> Returns("< ")
      [] o = OpDiscardReplaced -> Returns("<<")
      [] o = OpImport -> Returns("= ")
      [] o = OpImportReplacement -> Returns("=>")
      [] OTHER -> Failf("Unrecognized resource step op: " \o o)

PastTense(o) ==
    CASE o \in {OpSame, OpCreate, OpReplace, OpCreateReplacement, OpUpdate, OpReadReplacement} ->
            Returns(o \o "d")
      [] o = OpRefresh -> Returns("refreshed")
      [] o = OpRead -> Returns("read")
      [] o \in {OpReadDiscard, OpDiscardReplaced} -> Returns("discarded")
      [] o \in {OpDelete, OpDeleteReplaced} -> Returns("deleted")
      [] o \in {OpImport, OpImportReplacement} -> Returns("imported")
      [] OTHER -> Failf("Unexpected resource step op: " \o o)

\* Suffix returns a suggested suffix for lines of this op type: updates and
\* replacements colorize individual lines, every other op has none.
Suffix(o) ==
    IF o \in {OpCreateReplacement, OpUpdate, OpReplace, OpReadReplacement, OpRefresh, OpImportReplacement}
    THEN Returns(colors.Reset)
    ELSE Returns("")

\* ConstrainedTo whose replacement constraints do not allow same
ConstrainedTo_NoSame(o, c) ==
    \/ c \in {StepOps[i] : i \in 1..Len(StepOps)} /\ o = c
    \/ c \in {OpCreate, OpUpdate} /\ o = OpSame
    \/ c \in {OpReplace, OpCreateReplacement, OpDeleteReplaced} /\ o = OpUpdate

\* ConstrainedTo with every constraint allowing only itself
ConstrainedTo_OnlyItself(o, c) ==
    c \in {StepOps[i] : i \in 1..Len(StepOps)} /\ o = c

\* ConstrainedTo returns true if this operation is no more impactful than
\* the constraint.
ConstrainedTo(o, c) ==
    LET allowed ==
            CASE c \in {OpSame, OpDelete, OpRead, OpReadReplacement, OpRefresh, OpReadDiscard,
                        OpDiscardReplaced, OpRemovePendingReplace, OpImport, OpImportReplacement} -> <<c>>
              [] c = OpCreate -> <<OpSame, OpCreate>>
              [] c = OpUpdate -> <<OpSame, OpUpdate>>
              [] c \in {OpReplace, OpCreateReplacement, OpDeleteReplaced} -> <<OpSame, OpUpdate, c>>
              [] OTHER -> <<>>
    IN  \E i \in 1..Len(allowed) : allowed[i] = o

\* no presentation helper has been called
NoShown == [none |-> TRUE]

\* plugin.UnknownStringValue, the ID of a resource whose ID is not known yet
UnknownStringValue == "04da6b54-80e4-46f7-96ec-b56ff0331ba9"

\* A nil *resource.State.
NoState == [nil |-> TRUE]

\* Apply has not run (or its step was retired).
NoResult == [none |-> TRUE]

\* resource.PropertyMap: nil, or a map given as its set of <<key, value>> pairs.
NilPM == [nil |-> TRUE, kv |-> {}]
PM(kv) == [nil |-> FALSE, kv |-> kv]
EmptyPM == PM({})
PM1 == PM({<<"k", 1>>})
PM2 == PM({<<"k", 2>>})

\* PropertyMap.DeepEquals: key-wise equality; a nil map equals an empty one.
DeepEquals(a, b) == a.kv = b.kv

\* *time.Time: <<>> is nil, <<t>> points to instant t.
NoTime == <<>>
At(t) == <<t>>

\* error values: nil, the provider's errors, and the step's own.
NilErr == [kind |-> "nil", reasons |-> <<>>]
Err(k) == [kind |-> k, reasons |-> <<>>]
InitError(rs) == [kind |-> "InitError", reasons |-> rs]

\* deleteProtectedError{urn}: its message quotes the URN and the unprotect hint
deleteProtectedError(urn) == [kind |-> "deleteProtectedError", reasons |-> <<urn, "pulumi state unprotect">>]

URNa == "urn:a"
URNb == "urn:b"
RootStack == "urn:stack"
ProviderType == "pulumi:providers:pkg"
ResourceType == "pkg:mod:Res"
Timeouts == [Create |-> "tc", Update |-> "tu", Delete |-> "td"]

\* providers.IsProviderType
IsProviderType(t) == t = ProviderType

\* resource.NewState, in the argument order of its call sites.
NewState(type, urn, custom, del, id, inputs, outputs, parent, protect, external, initErrors, provider, pendingReplacement, importID, retainOnDelete, deletedWith, created, modified) ==
    [Type |-> type, URN |-> urn, Custom |-> custom, Delete |-> del, ID |-> id,
     Inputs |-> inputs, Outputs |-> outputs, Parent |-> parent, Protect |-> protect,
     External |-> external, InitErrors |-> initErrors, Provider |-> provider,
     PendingReplacement |-> pendingReplacement, CustomTimeouts |-> Timeouts,
     ImportID |-> importID, RetainOnDelete |-> retainOnDelete,
     DeletedWith |-> deletedWith, Created |-> created, Modified |-> modified]

(***************************************************************************)
(* Provider resolution                                                     *)
(***************************************************************************)
RefOK == "urn:pulumi:providers:pkg::p::id"
RefUnknown == "urn:pulumi:providers:pkg::q::id"
RefDenied == "urn:pulumi:providers:pkg::default::denydefaultprovider"
RefBad == "not-a-reference"

\* providers.ParseReference succeeds on a well-formed urn::id reference
ParseReferenceOK(ref) == ref \in {RefOK, RefUnknown, RefDenied}

\* providers.IsDenyDefaultsProvider
IsDenyDefaultsProvider(ref) == ref = RefDenied

\* Deployment.GetProvider: the registry holds RefOK only
RegistryHas(ref) == ref = RefOK

\* a resolution that took any well-formed reference for a registered one
getProvider_SkipsRegistry(type, provider) ==
    IF IsProviderType(type) THEN NilErr
    ELSE IF ~ParseReferenceOK(provider) THEN Err("bad provider reference")
    ELSE IF IsDenyDefaultsProvider(provider) THEN Err("default provider denied")
    ELSE NilErr

\* getProvider: the error it returns (NilErr when a provider was found)
getProvider(type, provider) ==
    IF IsProviderType(type) THEN NilErr
    ELSE IF ~ParseReferenceOK(provider) THEN Err("bad provider reference")
    ELSE IF IsDenyDefaultsProvider(provider) THEN Err("default provider denied")
    ELSE IF ~RegistryHas(provider) THEN Err("unknown provider")
    ELSE NilErr

(***************************************************************************)
(* Steps                                                                   *)
(***************************************************************************)
\* A constructed step.  oldref says what its `old` field points to: "nil",
\* "heap" (the snapshot's state) or "copy" (NewSkippedCreateStep's private
\* copy, held in `copy`); for an ImportStep it is the `original` field.
\* replacing: the step's replacing field.  pending: pendingDelete of a
\* CreateStep or ReplaceStep, planned of an ImportStep.  flag: a SameStep has
\* a deployment, a RefreshStep has a done channel.  paths: an ImportStep's
\* ignoreChanges or, when planned, the Properties of the import directive.
\* otherDeletions: a DeleteStep's map of the other planned deletions.
Step(kind, oldref, replacing, pending, flag, paths, otherDeletions, copy) ==
    [kind |-> kind, oldref |-> oldref, replacing |-> replacing, pending |-> pending,
     flag |-> flag, paths |-> paths, otherDeletions |-> otherDeletions, copy |-> copy]

\* map[resource.URN]bool: nil, or a map given as its set of <<urn, bool>> pairs
NilDeletions == [nil |-> TRUE, m |-> {}]
Deletions(m) == [nil |-> FALSE, m |-> m]

\* the state a step's `old` field points to
StepOld(s) ==
    IF s.oldref = "heap" THEN old ELSE IF s.oldref = "copy" THEN s.copy ELSE NoState

\* the contract.Requiref lines shared by the constructors
RequireOld(o) ==
    /\ o # NoState
    /\ o.URN # ""
    /\ (o.ID # "" \/ ~o.Custom)

RequireProviderOf(r) ==
    ~r.Custom \/ r.Provider # "" \/ IsProviderType(r.Type)

RequireNew(n) ==
    /\ n # NoState
    /\ n.URN # ""
    /\ n.ID = ""
    /\ RequireProviderOf(n)
    /\ ~n.Delete

NewSameStepRequires(o, n) ==
    /\ RequireOld(o)
    /\ RequireProviderOf(o)
    /\ ~o.Delete
    /\ RequireNew(n)

NewSkippedCreateStepRequires(n) == RequireNew(n)

NewCreateStepRequires(n) ==
    /\ RequireNew(n)
    /\ ~n.External

NewCreateReplacementStepRequires(o, n) ==
    /\ RequireOld(o)
    /\ ~o.Delete
    /\ RequireNew(n)
    /\ ~n.External

NewDeleteStepRequires(o, od) ==
    /\ RequireOld(o)
    /\ RequireProviderOf(o)
    /\ ~od.nil

\* an assertion that refused only the two flags together
DeleteReplacementAssert_NotBoth(pendingReplace, o) == ~(pendingReplace /\ o.Delete)

\* contract.Assertf(pendingReplace != old.Delete, ...)
DeleteReplacementAssert(pendingReplace, o) == pendingReplace # o.Delete

NewDeleteReplacementStepRequires(o, od, pendingReplace) ==
    /\ NewDeleteStepRequires(o, od)
    /\ DeleteReplacementAssert(pendingReplace, o)

NewRemovePendingReplaceStepRequires(o) ==
    /\ o # NoState
    /\ o.PendingReplacement

NewUpdateStepRequires(o, n) ==
    /\ RequireOld(o)
    /\ RequireProviderOf(o)
    /\ ~o.Delete
    /\ ~o.External
    /\ RequireNew(n)
    /\ ~n.External

NewReplaceStepRequires(o, n) ==
    /\ RequireOld(o)
    /\ ~o.Delete
    /\ n # NoState
    /\ n.URN # ""
    /\ ~n.Delete

RequireReadNew(n) ==
    /\ n # NoState
    /\ n.URN # ""
    /\ n.ID # ""
    /\ n.External
    /\ n.Custom

NewReadStepRequires(o, n) ==
    /\ RequireReadNew(n)
    /\ (o # NoState => (o.ID = n.ID \/ o.External))

\* a constructor that accepted external old states
NewReadReplacementStepRequires_AnyOld(o, n) ==
    /\ RequireReadNew(n)
    /\ o # NoState

NewReadReplacementStepRequires(o, n) ==
    /\ RequireReadNew(n)
    /\ o # NoState
    /\ ~o.External

NewRefreshStepRequires(o) == o # NoState

NewImportStepRequires(n) ==
    /\ n # NoState
    /\ n.URN # ""
    /\ n.ID # ""
    /\ n.Custom
    /\ ~n.Delete
    /\ ~n.External

NewImportReplacementStepRequires(o, n) ==
    /\ o # NoState
    /\ NewImportStepRequires(n)

newImportDeploymentStepRequires(n) ==
    /\ n # NoState
    /\ n.URN # ""
    /\ (~n.Custom \/ n.ID # "")
    /\ ~n.Delete
    /\ ~n.External

(***************************************************************************)
(* Provider answers                                                        *)
(***************************************************************************)
Reasons == <<"x", "y">>

\* (error, status) pairs a provider RPC can return
ErrShapes ==
    {<<NilErr, StatusOK>>} \cup
    ({Err("provider error"), InitError(Reasons)} \X {StatusOK, StatusUnknown, StatusPartialFailure})

\* a step that took every failure for a partial one
IsHardFailure_Never(err, rst) == FALSE

\* the provider's error is fatal to the step unless the status is PartialFailure
IsHardFailure(err, rst) == err # NilErr /\ rst # StatusPartialFailure

\* What the step's collaborators answer during one Apply.  id, ins, outs,
\* rst, err: the provider's Create/Update/Delete/Read.  check: the provider's
\* Check ("ok", "failures", "error"); diff: diffResource ("none", "changes",
\* "error"); ignore: processIgnoreChanges ("ok", "error"); env: what the
\* deployment holds: "ok", or "SameProvider fails", "parent unknown" (the
\* parent is not among the new states), "preview" (deployment.preview is
\* set, where "ok" says it is not).
Resp(id, ins, outs, e, check, diff, ignore, env) ==
    [id |-> id, ins |-> ins, outs |-> outs, err |-> e[1], rst |-> e[2],
     check |-> check, diff |-> diff, ignore |-> ignore, env |-> env]

\* a hard failure carries no result
Plain(r) == IsHardFailure(r.err, r.rst) => (r.id = "" /\ r.ins.nil /\ r.outs.nil)

NoResp == Resp("", NilPM, NilPM, <<NilErr, StatusOK>>, "ok", "none", "ok", "ok")

SameResponses == {Resp("", NilPM, NilPM, <<NilErr, StatusOK>>, "ok", "none", "ok", env) : env \in {"ok", "SameProvider fails"}}

CreateResponses == {r \in {Resp(id, NilPM, outs, e, "ok", "none", "ok", env) : id \in {"", "id-7"}, outs \in {NilPM, PM2}, e \in ErrShapes, env \in {"ok", "preview"}} : Plain(r)}

UpdateResponses == {r \in {Resp("", NilPM, outs, e, "ok", "none", "ok", env) : outs \in {NilPM, PM2}, e \in ErrShapes, env \in {"ok", "preview"}} : Plain(r)}

DeleteResponses == {Resp("", NilPM, NilPM, e, "ok", "none", "ok", "ok") : e \in ErrShapes}

ReadResponses == {r \in {Resp(id, ins, outs, e, "ok", "none", "ok", "ok") : id \in {"", "id-7"}, ins \in {NilPM, PM1}, outs \in {NilPM, PM1, PM2}, e \in ErrShapes} : Plain(r)}

(***************************************************************************)
(* Apply                                                                   *)
(***************************************************************************)
\* One provider RPC, with the arguments the step passed.
Call(rpc, urn, id, a, b, timeout, flag) ==
    [rpc |-> rpc, urn |-> urn, id |-> id, a |-> a, b |-> b, timeout |-> timeout, flag |-> flag]

\* What one Apply did: the states it leaves, what it returned (status,
\* whether the StepCompleteFunc is non-nil, the error), the RPCs it issued,
\* the step's Old() and New() afterwards (aliased: New() is the very object
\* Old() is), the warnings it sent to the diagnostics sink, and the
\* contract assertion that failed, if one did.
Return(o, n, status, complete, err, calls) ==
    [old |-> o, new |-> n, status |-> status, complete |-> complete, err |-> err,
     calls |-> calls, stepOld |-> o, stepNew |-> n, aliased |-> FALSE,
     warnings |-> <<>>, failed |-> ""]

\* a step that forgot the reasons of an InitError
WithInitErrors_Forgotten(n, err) == n

\* `if initErr, isInitErr := err.(*plugin.InitError); isInitErr { new.InitErrors = initErr.Reasons }`
WithInitErrors(n, err) ==
    IF err.kind = "InitError" THEN [n EXCEPT !.InitErrors = err.reasons] ELSE n

\* ---- SameStep ----------------------------------------------------------
\* SameStep.IsSkippedCreate: the step holds NewSkippedCreateStep's copy
IsSkippedCreate(s) == s.kind = "Same" /\ s.oldref = "copy"

\* a step that re-registered the provider of a skipped create as well
SameRegistersProvider_Skipped(s, n) == IsProviderType(n.Type)

\* the step re-registers its provider: a provider type, and not a skipped create
SameRegistersProvider(s, n) == IsProviderType(n.Type) /\ ~IsSkippedCreate(s)

\* a step that retained the ID only
SamePropagate_IDOnly(n, o) == [n EXCEPT !.ID = o.ID]

\* "Retain the ID and outputs"
SamePropagate(n, o) == [n EXCEPT !.ID = o.ID, !.Outputs = o.Outputs]

SameStepApply(s, pv, r) ==
    LET o == StepOld(s)
        n == SamePropagate(new, o)
        call == Call("SameProvider", n.URN, n.ID, NilPM, NilPM, "", FALSE)
    IN  IF SameRegistersProvider(s, n) /\ s.flag
        THEN IF r.env = "SameProvider fails"
             THEN [Return(old, n, StatusOK, FALSE, Err("bad provider state"), <<call>>) EXCEPT !.stepOld = o]
             ELSE [Return(old, n, StatusOK, TRUE, NilErr, <<call>>) EXCEPT !.stepOld = o]
        ELSE [Return(old, n, StatusOK, TRUE, NilErr, <<>>) EXCEPT !.stepOld = o]

\* ---- CreateStep --------------------------------------------------------
\* an ID check that did not look at preview
CreateMissingID_AnyMode(pv, id) == id = ""

\* an ID check that ran in previews only
CreateMissingID_InPreview(pv, id) == pv /\ id = ""

\* `if !preview && id == ""`
CreateMissingID(pv, id) == ~pv /\ id = ""

\* a create that pended the deletion only when not asked to
CreateMarksOld_Inverted(s) == s.replacing /\ ~s.pending

\* a create that left the mark to the delete step
CreateMarksOld_Never(s) == FALSE

\* `if s.replacing && s.pendingDelete { s.old.Delete = true }`
CreateMarksOld(s) == s.replacing /\ s.pending

\* a tail that stamped Created only
CreateFinish_CreatedOnly(s, n, status, err, calls) ==
    LET n2 == [n EXCEPT !.Created = At(now)]
        o2 == IF s.replacing /\ s.pending THEN [old EXCEPT !.Delete = TRUE] ELSE old
    IN  [Return(o2, n2, status, TRUE, err, calls) EXCEPT !.stepOld = IF s.replacing THEN o2 ELSE NoState]

\* the tail of CreateStep.Apply, from the timestamps on
CreateFinish(s, n, status, err, calls) ==
    LET n2 == [n EXCEPT !.Created = At(now), !.Modified = At(now)]
        o2 == IF CreateMarksOld(s) THEN [old EXCEPT !.Delete = TRUE] ELSE old
    IN  [Return(o2, n2, status, TRUE, err, calls) EXCEPT !.stepOld = IF s.replacing THEN o2 ELSE NoState]

CreateStepApply(s, pv, r) ==
    LET so == IF s.replacing THEN old ELSE NoState
        perr == getProvider(new.Type, new.Provider)
        call == Call("Create", new.URN, "", new.Inputs, NilPM, new.CustomTimeouts.Create, r.env = "preview")
    IN  IF new.Custom
        THEN IF perr # NilErr
             THEN [Return(old, new, StatusOK, FALSE, perr, <<>>) EXCEPT !.stepOld = so]
             ELSE IF IsHardFailure(r.err, r.rst)
             THEN [Return(old, new, r.rst, FALSE, r.err, <<call>>) EXCEPT !.stepOld = so]
             ELSE LET resourceStatus == IF r.err # NilErr THEN r.rst ELSE StatusOK
                      n1 == WithInitErrors(new, r.err)
                  IN  IF CreateMissingID(pv, r.id)
                      THEN [Return(old, n1, resourceStatus, FALSE, Err("provider did not return an ID from Create"), <<call>>) EXCEPT !.stepOld = so]
                      ELSE CreateFinish(s, [n1 EXCEPT !.ID = r.id, !.Outputs = r.outs], resourceStatus, r.err, <<call>>)
        ELSE CreateFinish(s, new, StatusOK, NilErr, <<>>)

\* ---- DeleteStep --------------------------------------------------------
\* a lookup that took any entry of the map for a deletion
isDeletedWith_AnyEntry(with, od) ==
    with # "" /\ \E e \in od.m : e[1] = with

isDeletedWith(with, od) ==
    IF with = "" THEN FALSE
    ELSE IF ~(\E e \in od.m : e[1] = with) THEN FALSE
    ELSE <<with, TRUE>> \in od.m

\* a protection that did not spare replacements
DeleteProtected_Always(s, o) == o.Protect

\* `if !s.replacing && s.old.Protect`
DeleteProtected(s, o) == ~s.replacing /\ o.Protect

\* a chain without its preview branch
DeleteCallsProvider_InPreview(pv, o, od) ==
    IF o.External THEN FALSE
    ELSE IF o.RetainOnDelete THEN FALSE
    ELSE IF <<o.DeletedWith, TRUE>> \in od.m THEN FALSE
    ELSE o.Custom

\* the if/else-if chain of DeleteStep.Apply reaches the provider call
DeleteCallsProvider(pv, o, od) ==
    IF pv THEN FALSE
    ELSE IF o.External THEN FALSE
    ELSE IF o.RetainOnDelete THEN FALSE
    ELSE IF isDeletedWith(o.DeletedWith, od) THEN FALSE
    ELSE o.Custom

DeleteStepApply(s, pv, r) ==
    LET perr == getProvider(old.Type, old.Provider)
        call == Call("Delete", old.URN, old.ID, old.Inputs, old.Outputs, old.CustomTimeouts.Delete, FALSE)
        ret(status, complete, err, calls) == [Return(old, new, status, complete, err, calls) EXCEPT !.stepNew = NoState]
    IN  IF DeleteProtected(s, old)
        THEN ret(StatusOK, FALSE, deleteProtectedError(old.URN), <<>>)
        ELSE IF DeleteCallsProvider(pv, old, s.otherDeletions)
        THEN IF perr # NilErr
             THEN ret(StatusOK, FALSE, perr, <<>>)
             ELSE IF r.err # NilErr
             THEN ret(r.rst, FALSE, r.err, <<call>>)
             ELSE ret(StatusOK, TRUE, NilErr, <<call>>)
        ELSE ret(StatusOK, TRUE, NilErr, <<>>)

\* ---- RemovePendingReplaceStep ------------------------------------------
RemovePendingReplaceStepApply(s, pv, r) ==
    [Return(old, new, StatusOK, FALSE, NilErr, <<>>) EXCEPT !.stepNew = NoState]

\* ---- UpdateStep --------------------------------------------------------
\* a propagation that left Created behind
UpdatePropagate_NoCreated(n, o) ==
    [n EXCEPT !.ID = o.ID, !.Modified = o.Modified]

\* "Always propagate the ID and timestamps even in previews and refreshes."
UpdatePropagate(n, o) ==
    [n EXCEPT !.ID = o.ID, !.Created = o.Created, !.Modified = o.Modified]

UpdateStepApply(s, pv, r) ==
    LET n0 == UpdatePropagate(new, old)
        perr == getProvider(n0.Type, n0.Provider)
        call == Call("Update", n0.URN, old.ID, n0.Inputs, old.Outputs, n0.CustomTimeouts.Update, r.env = "preview")
    IN  IF n0.Custom
        THEN IF perr # NilErr
             THEN Return(old, n0, StatusOK, FALSE, perr, <<>>)
             ELSE IF IsHardFailure(r.err, r.rst)
             THEN Return(old, n0, r.rst, FALSE, r.err, <<call>>)
             ELSE LET resourceStatus == IF r.err # NilErr THEN r.rst ELSE StatusOK
                      n1 == WithInitErrors(n0, r.err)
                      n2 == [n1 EXCEPT !.Outputs = r.outs, !.Modified = At(now)]
                  IN  Return(old, n2, resourceStatus, TRUE, r.err, <<call>>)
        ELSE Return(old, n0, StatusOK, TRUE, NilErr, <<>>)

\* ---- ReplaceStep -------------------------------------------------------
\* contract.Assertf(!s.pendingDelete || s.old.Delete, ...)
ReplaceAssert(s, o) == ~s.pending \/ o.Delete

ReplaceStepApply(s, pv, r) ==
    IF ReplaceAssert(s, old)
    THEN Return(old, new, StatusOK, TRUE, NilErr, <<>>)
    ELSE [Return(old, new, StatusOK, FALSE, NilErr, <<>>) EXCEPT !.failed = "ReplaceStep.Apply"]

\* ---- ReadStep ----------------------------------------------------------
\* a read that skipped the provider for no ID at all
ReadSkipsProvider_EmptyID(id) == id = ""

\* `if id == plugin.UnknownStringValue`
ReadSkipsProvider(id) == id = UnknownStringValue

\* a read that always took the ID returned
ReadAdoptID_Always(id, readID) == readID

\* `if result.ID != "" { s.new.ID = result.ID }`
ReadAdoptID(id, readID) == IF readID # "" THEN readID ELSE id

\* a tail that stamped Modified on every read
ReadFinish_AlwaysModified(s, n, status, err, calls) ==
    LET o == StepOld(s)
        o2 == IF s.replacing THEN [old EXCEPT !.Delete = TRUE] ELSE old
        n1 == IF o # NoState THEN [n EXCEPT !.Created = o.Created, !.Modified = At(now)] ELSE n
    IN  [Return(o2, n1, status, TRUE, err, calls) EXCEPT !.stepOld = IF o = NoState THEN NoState ELSE o2]

\* the tail of ReadStep.Apply, from the pending deletion on
ReadFinish(s, n, status, err, calls) ==
    LET o == StepOld(s)
        o2 == IF s.replacing THEN [old EXCEPT !.Delete = TRUE] ELSE old
        n1 == IF o # NoState THEN [n EXCEPT !.Created = o.Created, !.Modified = o.Modified] ELSE n
        inputsChange == o # NoState /\ ~DeepEquals(n1.Inputs, o.Inputs)
        outputsChange == o # NoState /\ ~DeepEquals(n1.Outputs, o.Outputs)
        n2 == IF inputsChange \/ outputsChange THEN [n1 EXCEPT !.Modified = At(now)] ELSE n1
    IN  [Return(o2, n2, status, TRUE, err, calls) EXCEPT !.stepOld = IF o = NoState THEN NoState ELSE o2]

ReadStepApply(s, pv, r) ==
    LET so == StepOld(s)
        perr == getProvider(new.Type, new.Provider)
        call == Call("Read", new.URN, new.ID, NilPM, new.Inputs, "", FALSE)
    IN  IF ReadSkipsProvider(new.ID)
        THEN ReadFinish(s, [new EXCEPT !.Outputs = EmptyPM], StatusOK, NilErr, <<>>)
        ELSE IF perr # NilErr
        THEN [Return(old, new, StatusOK, FALSE, perr, <<>>) EXCEPT !.stepOld = so]
        ELSE IF IsHardFailure(r.err, r.rst)
        THEN [Return(old, new, r.rst, FALSE, r.err, <<call>>) EXCEPT !.stepOld = so]
        ELSE LET resourceStatus == IF r.err # NilErr THEN r.rst ELSE StatusOK
                 n1 == WithInitErrors(new, r.err)
             IN  IF r.outs.nil
                 THEN [Return(old, n1, StatusOK, FALSE, Err("resource does not exist"), <<call>>) EXCEPT !.stepOld = so]
                 ELSE ReadFinish(s, [n1 EXCEPT !.Outputs = r.outs, !.ID = ReadAdoptID(@, r.id)], resourceStatus, r.err, <<call>>)

\* ---- RefreshStep -------------------------------------------------------
\* a refresh that read pending-replace resources too
RefreshShortCircuits_ReadsPending(o) == ~o.Custom \/ IsProviderType(o.Type)

\* component, provider and pending-replace resources are never read
RefreshShortCircuits(o) == ~o.Custom \/ IsProviderType(o.Type) \/ o.PendingReplacement

\* PropertyMap.Diff(other) == nil: the two maps hold the same properties
DiffIsNil(a, b) == a.kv = b.kv

\* a classifier that looked at identity only
ResultOp_IdentityOnly(o, sn, aliased) ==
    IF sn = NoState THEN OpDelete
    ELSE IF aliased THEN OpSame
    ELSE OpUpdate

\* RefreshStep.ResultOp, from the step's New() (sn; aliased: it is Old() itself)
ResultOp(o, sn, aliased) ==
    IF sn = NoState THEN OpDelete
    ELSE IF aliased \/ DiffIsNil(o.Outputs, sn.Outputs) THEN OpSame
    ELSE OpUpdate

\* a refresh that dropped the reasons
RefreshInitErrors_Dropped(err) == <<>>

\* `if initErr, isInitErr := err.(*plugin.InitError); isInitErr { initErrors = initErr.Reasons`
RefreshInitErrors(err) == IF err.kind = "InitError" THEN err.reasons ELSE <<>>

\* a rebuilt state that lost the protection of the old one
RefreshNewState_Unprotected(o, id, inputs, outputs, initErrors) ==
    NewState(o.Type, o.URN, o.Custom, o.Delete, id, inputs, outputs, o.Parent, FALSE, o.External, initErrors, o.Provider, o.PendingReplacement, o.ImportID, o.RetainOnDelete, o.DeletedWith, o.Created, o.Modified)

\* `s.new = resource.NewState(s.old.Type, s.old.URN, ...)`: the state the
\* refresh builds from the old one and what the provider read
RefreshNewState(o, id, inputs, outputs, initErrors) ==
    NewState(o.Type, o.URN, o.Custom, o.Delete, id, inputs, outputs, o.Parent, o.Protect, o.External, initErrors, o.Provider, o.PendingReplacement, o.ImportID, o.RetainOnDelete, o.DeletedWith, o.Created, o.Modified)

RefreshStepApply(s, pv, r) ==
    LET perr == getProvider(old.Type, old.Provider)
        call == Call("Read", old.URN, old.ID, old.Inputs, old.Outputs, "", FALSE)
        ret(sn, aliased, status, complete, err, calls, warnings) ==
            [Return(old, new, status, complete, err, calls) EXCEPT !.stepNew = sn, !.aliased = aliased, !.warnings = warnings]
    IN  IF RefreshShortCircuits(old)
        THEN ret(old, TRUE, StatusOK, s.flag, NilErr, <<>>, <<>>)
        ELSE IF perr # NilErr
        THEN ret(old, TRUE, StatusOK, FALSE, perr, <<>>, <<>>)
        ELSE IF IsHardFailure(r.err, r.rst)
        THEN ret(old, TRUE, r.rst, FALSE, r.err, <<call>>, <<>>)
        ELSE LET isInit == r.err.kind = "InitError"
                 initErrors == RefreshInitErrors(r.err)
                 err == IF isInit THEN NilErr ELSE r.err
                 warnings == IF isInit THEN <<"Refreshed resource is in an unhealthy state">> ELSE <<>>
                 inputs == IF ~r.ins.nil THEN r.ins ELSE old.Inputs
                 resourceID == IF r.id # "" /\ r.id # old.ID THEN r.id ELSE old.ID
                 sn == RefreshNewState(old, resourceID, inputs, r.outs, initErrors)
                 inputsChange == ~DeepEquals(r.ins, old.Inputs)
                 outputsChange == ~DeepEquals(r.outs, old.Outputs)
                 sn2 == IF inputsChange \/ outputsChange THEN [sn EXCEPT !.Modified = At(now)] ELSE sn
             IN  IF ~r.outs.nil
                 THEN ret(sn2, FALSE, r.rst, FALSE, err, <<call>>, warnings)
                 ELSE ret(NoState, FALSE, r.rst, FALSE, err, <<call>>, warnings)

\* ---- ImportStep --------------------------------------------------------
\* what Read gives an import: inputs with two properties, so that a
\* directive naming one of them is seen to narrow them
PM12 == PM({<<"k", 1>>, <<"z", 9>>})

ImportReadFails(r) == (r.err # NilErr /\ r.err.kind # "InitError") \/ r.outs.nil \/ r.ins.nil

\* The answers an import can ask for.  Answers to questions Apply never
\* reaches are left at their defaults.
ImportResponses ==
    {r \in {Resp(id, ins, outs, e, check, diff, ignore, env) :
                id \in {"", "id-7"}, ins \in {NilPM, PM12}, outs \in {NilPM, PM1}, e \in ErrShapes,
                check \in {"ok", "failures", "error"}, diff \in {"none", "changes", "error"},
                ignore \in {"ok", "error"}, env \in {"ok", "parent unknown"}} :
        /\ Plain(r)
        /\ r.env # "ok" => (r.id = "" /\ r.ins.nil /\ r.outs.nil /\ r.err = NilErr)
        /\ (r.env # "ok" \/ ImportReadFails(r) \/ r.ignore = "error") => r.check = "ok"
        /\ (r.check # "ok" \/ r.ignore = "error") => r.diff = "none"
        /\ ImportReadFails(r) => r.ignore = "ok"}

\* processIgnoreChanges: the new inputs, with every ignored path set back to
\* its old value (or dropped when the old inputs do not have it)
processIgnoreChanges(newInputs, oldInputs, paths) ==
    PM({e \in newInputs.kv : \A i \in 1..Len(paths) : paths[i] # e[1]}
       \cup {e \in oldInputs.kv : \E i \in 1..Len(paths) : paths[i] = e[1]})

\* the Properties of the import directive whose ID is the ID that was read;
\* the deployment's one directive carries the ID the step was declared with
InputProperties(s, declaredID, readID) ==
    IF declaredID = readID THEN s.paths ELSE <<>>

\* an import that pended the deletion whatever the error
ImportMarksOriginal_Always(s, err) == s.replacing

\* `if err == nil && s.replacing { s.original.Delete = true }`
ImportMarksOriginal(s, err) == err = NilErr /\ s.replacing

\* the planned-import branch (lines 1068-1127)
ImportPlanned(s, pv, r, n, so, rst, calls, declaredID) ==
    LET inputProperties == InputProperties(s, declaredID, so.ID)
        taken == {e \in so.Inputs.kv : \E i \in 1..Len(inputProperties) : inputProperties[i] = e[1]}
        n1 == IF Len(inputProperties) = 0
              THEN [n EXCEPT !.Inputs = PM(so.Inputs.kv)]
              ELSE IF taken = {} THEN n ELSE [n EXCEPT !.Inputs = PM(n.Inputs.kv \cup taken)]
        check == Call("Check", n.URN, "", so.Inputs, n1.Inputs, "", pv)
        warnings == IF r.check = "failures" THEN <<"One or more imported inputs failed to validate">> ELSE <<>>
        ret(m, complete, err, cs) == [Return(old, m, rst, complete, err, cs) EXCEPT !.stepOld = so]
    IN  IF n.Inputs.kv # {}
        THEN [ret(n, FALSE, NilErr, calls) EXCEPT !.failed = "import resource cannot have existing inputs"]
        ELSE IF Len(inputProperties) # 0 /\ taken # {} /\ n.Inputs.nil
        THEN [ret(n, FALSE, NilErr, calls) EXCEPT !.failed = "assignment to entry in nil map"]
        ELSE IF r.check = "error"
        THEN ret(n1, FALSE, Err("check error"), calls \o <<check>>)
        ELSE IF r.check = "failures" /\ Len(inputProperties) = 0 /\ ~ParseReferenceOK(n.Provider)
        THEN [ret(n1, FALSE, NilErr, calls \o <<check>>) EXCEPT !.failed = "failed to parse provider reference"]
        ELSE [ret(n1, TRUE, NilErr, calls \o <<check>>) EXCEPT !.warnings = warnings]

\* a mismatch that failed previews too
ImportMismatchFails_AnyMode(pv, diff) == diff = "changes"

\* `if diff.Changes != plugin.DiffNone { if preview { warn } else { err = errors.New(message) } }`
ImportMismatchFails(pv, diff) == diff = "changes" /\ ~pv

\* the adoption branch (lines 1129-1173); Check hands the inputs back as given
ImportAdopt(s, pv, r, n, so, rst, calls) ==
    LET n1 == [n EXCEPT !.Inputs = processIgnoreChanges(n.Inputs, so.Inputs, s.paths)]
        check == Call("Check", n.URN, "", so.Inputs, n1.Inputs, "", pv)
        diff == Call("Diff", n.URN, n.ID, so.Inputs, so.Outputs, "", pv)
        err == IF ImportMismatchFails(pv, r.diff) THEN Err("inputs to import do not match the existing resource") ELSE NilErr
        warnings == IF r.diff = "changes" /\ pv THEN <<"inputs to import do not match the existing resource; importing this resource will fail">> ELSE <<>>
        o2 == IF ImportMarksOriginal(s, err) THEN [old EXCEPT !.Delete = TRUE] ELSE old
        ret(o, m, status, complete, e, cs) == [Return(o, m, status, complete, e, cs) EXCEPT !.stepOld = so]
    IN  IF r.ignore = "error"
        THEN ret(old, n, StatusOK, FALSE, Err("ignoreChanges error"), calls)
        ELSE IF r.check = "error"
        THEN ret(old, n1, rst, FALSE, Err("check error"), calls \o <<check>>)
        ELSE IF r.check = "failures"
        THEN ret(old, n1, rst, FALSE, Err("one or more inputs failed to validate"), calls \o <<check>>)
        ELSE IF r.diff = "error"
        THEN ret(old, n1, rst, FALSE, Err("diff error"), calls \o <<check, diff>>)
        ELSE [ret(o2, n1, rst, TRUE, err, calls \o <<check, diff>>) EXCEPT !.warnings = warnings]

\* ImportStep.Apply from `s.new.Outputs = outputs` on: inputs and outputs are
\* what Read gave (empty maps for a component)
ImportAfterRead(s, pv, r, n, inputs, outputs, rst, calls, declaredID) ==
    LET so == NewState(n.Type, n.URN, n.Custom, FALSE, n.ID, inputs, outputs, n.Parent, n.Protect, FALSE, n.InitErrors, n.Provider, FALSE, n.ImportID, n.RetainOnDelete, n.DeletedWith, NoTime, NoTime)
        n1 == [n EXCEPT !.Outputs = outputs, !.Modified = At(now), !.Created = At(now)]
    IN  IF ~n1.Custom
        THEN [Return(old, n1, rst, TRUE, NilErr, calls) EXCEPT !.stepOld = so]
        ELSE IF s.pending
        THEN ImportPlanned(s, pv, r, n1, so, rst, calls, declaredID)
        ELSE ImportAdopt(s, pv, r, n1, so, rst, calls)

\* a planned import that did not look at the old states
ImportAlreadyExists_Unplanned(s, o) == ~s.pending /\ o # NoState

\* `if s.planned { if _, ok := s.deployment.olds[s.new.URN]; ok {`
ImportAlreadyExists(s, o) == s.pending /\ o # NoState

\* an import that took outputs without inputs
ImportReadAnswer_NoInputsOK(r) ==
    IF r.outs.nil THEN "does not exist" ELSE "ok"

\* what the Read of an import amounts to: the resource does not exist, the
\* provider does not support import, or there is something to import
ImportReadAnswer(r) ==
    IF r.outs.nil THEN "does not exist"
    ELSE IF r.ins.nil THEN "unsupported"
    ELSE "ok"

ImportStepApply(s, pv, r) ==
    LET perr == getProvider(new.Type, new.Provider)
        call == Call("Read", new.URN, new.ID, NilPM, NilPM, "", FALSE)
        ret(n, status, err, calls) == [Return(old, n, status, FALSE, err, calls) EXCEPT !.stepOld = NoState]
    IN  IF ImportAlreadyExists(s, old)
        THEN ret(new, StatusOK, Err("resource already exists"), <<>>)
        ELSE IF s.pending /\ new.Parent # RootStack /\ r.env = "parent unknown"
        THEN ret(new, StatusOK, Err("unknown parent"), <<>>)
        ELSE IF ~new.Custom
        THEN ImportAfterRead(s, pv, r, new, EmptyPM, EmptyPM, StatusOK, <<>>, new.ID)
        ELSE IF perr # NilErr
        THEN ret(new, StatusOK, perr, <<>>)
        ELSE LET n1 == WithInitErrors(new, r.err)
             IN  IF r.err # NilErr /\ r.err.kind # "InitError"
                 THEN ret(new, r.rst, r.err, <<call>>)
                 ELSE IF ImportReadAnswer(r) = "does not exist"
                 THEN ret(n1, r.rst, Err("resource does not exist"), <<call>>)
                 ELSE IF ImportReadAnswer(r) = "unsupported"
                 THEN ret(n1, StatusOK, Err("provider does not support importing resources"), <<call>>)
                 ELSE ImportAfterRead(s, pv, r, [n1 EXCEPT !.ID = IF r.id # "" THEN r.id ELSE @], r.ins, r.outs, r.rst, <<call>>, new.ID)

(***************************************************************************)
(* Actions                                                                 *)
(***************************************************************************)
\* the generator and the executor take turns: nothing is constructed or
\* applied while a step waits to be retired, or after the process aborted
Idle == aborted = "" /\ last = NoResult

\* A constructor call: the step joins the pending steps when the
\* constructor's contract holds, and the process aborts when it does not.
Construct(name, requires, s) ==
    /\ Idle
    /\ budget > 0
    /\ budget' = budget - 1
    /\ IF requires
       THEN steps' = steps \cup {s} /\ aborted' = ""
       ELSE steps' = steps /\ aborted' = name
    /\ UNCHANGED <<old, new, last, now, done>>
    /\ UNCHANGED <<op, constraint, shown>>

NoPaths == <<>>

OtherDeletionsArgs == {NilDeletions, Deletions({}), Deletions({<<URNb, TRUE>>}), Deletions({<<URNb, FALSE>>})}

NewSameStep ==
    \E deployment \in BOOLEAN :
        Construct("NewSameStep", NewSameStepRequires(old, new),
                  Step("Same", "heap", FALSE, FALSE, deployment, NoPaths, NilDeletions, NoState))

NewSkippedCreateStep ==
    \E deployment \in BOOLEAN :
        Construct("NewSkippedCreateStep", NewSkippedCreateStepRequires(new),
                  Step("Same", "copy", FALSE, FALSE, deployment, NoPaths, NilDeletions, new))

NewCreateStep ==
    Construct("NewCreateStep", NewCreateStepRequires(new),
              Step("Create", "nil", FALSE, FALSE, FALSE, NoPaths, NilDeletions, NoState))

NewCreateReplacementStep ==
    \E pendingDelete \in BOOLEAN :
        Construct("NewCreateReplacementStep", NewCreateReplacementStepRequires(old, new),
                  Step("Create", "heap", TRUE, pendingDelete, FALSE, NoPaths, NilDeletions, NoState))

NewDeleteStep ==
    \E od \in OtherDeletionsArgs :
        Construct("NewDeleteStep", NewDeleteStepRequires(old, od),
                  Step("Delete", "heap", FALSE, FALSE, FALSE, NoPaths, od, NoState))

\* NewDeleteReplacementStep also writes old.PendingReplacement
NewDeleteReplacementStep ==
    \E od \in OtherDeletionsArgs, pendingReplace \in BOOLEAN :
        /\ Idle
        /\ budget > 0
        /\ budget' = budget - 1
        /\ IF NewDeleteReplacementStepRequires(old, od, pendingReplace)
           THEN /\ old' = [old EXCEPT !.PendingReplacement = pendingReplace]
                /\ steps' = steps \cup {Step("Delete", "heap", TRUE, FALSE, FALSE, NoPaths, od, NoState)}
                /\ aborted' = ""
           ELSE /\ aborted' = IF NewDeleteStepRequires(old, od)
                              THEN "cannot be pending replacement and deletion at the same time"
                              ELSE "NewDeleteReplacementStep"
                /\ UNCHANGED <<old, steps>>
        /\ UNCHANGED <<new, last, now, done>>
        /\ UNCHANGED <<op, constraint, shown>>

NewRemovePendingReplaceStep ==
    Construct("NewRemovePendingReplaceStep", NewRemovePendingReplaceStepRequires(old),
              Step("RemovePendingReplace", "heap", FALSE, FALSE, FALSE, NoPaths, NilDeletions, NoState))

NewUpdateStep ==
    Construct("NewUpdateStep", NewUpdateStepRequires(old, new),
              Step("Update", "heap", FALSE, FALSE, FALSE, NoPaths, NilDeletions, NoState))

NewReplaceStep ==
    \E pendingDelete \in BOOLEAN :
        Construct("NewReplaceStep", NewReplaceStepRequires(old, new),
                  Step("Replace", "heap", FALSE, pendingDelete, FALSE, NoPaths, NilDeletions, NoState))

NewReadStep ==
    Construct("NewReadStep", NewReadStepRequires(old, new),
              Step("Read", IF old = NoState THEN "nil" ELSE "heap", FALSE, FALSE, FALSE, NoPaths, NilDeletions, NoState))

NewReadReplacementStep ==
    Construct("NewReadReplacementStep", NewReadReplacementStepRequires(old, new),
              Step("Read", "heap", TRUE, FALSE, FALSE, NoPaths, NilDeletions, NoState))

NewRefreshStep ==
    \E hasDone \in BOOLEAN :
        Construct("NewRefreshStep", NewRefreshStepRequires(old),
                  Step("Refresh", "heap", FALSE, FALSE, hasDone, NoPaths, NilDeletions, NoState))

PathArgs == {NoPaths, <<"k">>}

NewImportStep ==
    \E ignoreChanges \in PathArgs :
        Construct("NewImportStep", NewImportStepRequires(new),
                  Step("Import", "nil", FALSE, FALSE, FALSE, ignoreChanges, NilDeletions, NoState))

NewImportReplacementStep ==
    \E ignoreChanges \in PathArgs :
        Construct("NewImportReplacementStep", NewImportReplacementStepRequires(old, new),
                  Step("Import", "heap", TRUE, FALSE, FALSE, ignoreChanges, NilDeletions, NoState))

newImportDeploymentStep ==
    \E properties \in PathArgs :
        Construct("newImportDeploymentStep", newImportDeploymentStepRequires(new),
                  Step("Import", "nil", FALSE, TRUE, FALSE, properties, NilDeletions, NoState))

\* One Apply: the step leaves the pending steps, the states change as the
\* step changed them and what Apply returned is kept until the executor
\* retires the step.  An answer nobody asked for is not recorded.  A failed
\* contract assertion ends the process instead.
Applied(s, pv, r, res) ==
    /\ Idle
    /\ steps' = steps \ {s}
    /\ old' = res.old
    /\ new' = res.new
    /\ now' = now + 1
    /\ IF res.failed # ""
       THEN aborted' = res.failed /\ last' = NoResult
       ELSE /\ aborted' = ""
            /\ last' = [step |-> s, preview |-> pv,
                        resp |-> IF res.calls = <<>> THEN [NoResp EXCEPT !.env = r.env] ELSE r,
                        oldBefore |-> old, newBefore |-> new, at |-> now,
                        status |-> res.status, complete |-> res.complete, err |-> res.err,
                        calls |-> res.calls, stepOld |-> res.stepOld, stepNew |-> res.stepNew,
                        aliased |-> res.aliased, warnings |-> res.warnings]
    /\ done' = IF s.kind = "Refresh" THEN (IF s.flag THEN "open" ELSE "none") ELSE done
    /\ UNCHANGED budget
    /\ UNCHANGED <<op, constraint, shown>>

ApplySame ==
    \E s \in steps, pv \in BOOLEAN, r \in SameResponses :
        /\ s.kind = "Same"
        /\ r.env # "ok" => (SameRegistersProvider(s, new) /\ s.flag)
        /\ Applied(s, pv, r, SameStepApply(s, pv, r))

ApplyCreate ==
    \E s \in steps, pv \in BOOLEAN, r \in CreateResponses :
        /\ s.kind = "Create"
        /\ Applied(s, pv, r, CreateStepApply(s, pv, r))

ApplyDelete ==
    \E s \in steps, pv \in BOOLEAN, r \in DeleteResponses :
        /\ s.kind = "Delete"
        /\ Applied(s, pv, r, DeleteStepApply(s, pv, r))

ApplyRemovePendingReplace ==
    \E s \in steps, pv \in BOOLEAN :
        /\ s.kind = "RemovePendingReplace"
        /\ Applied(s, pv, NoResp, RemovePendingReplaceStepApply(s, pv, NoResp))

ApplyUpdate ==
    \E s \in steps, pv \in BOOLEAN, r \in UpdateResponses :
        /\ s.kind = "Update"
        /\ Applied(s, pv, r, UpdateStepApply(s, pv, r))

ApplyReplace ==
    \E s \in steps, pv \in BOOLEAN :
        /\ s.kind = "Replace"
        /\ Applied(s, pv, NoResp, ReplaceStepApply(s, pv, NoResp))

ApplyRead ==
    \E s \in steps, pv \in BOOLEAN, r \in ReadResponses :
        /\ s.kind = "Read"
        /\ Applied(s, pv, r, ReadStepApply(s, pv, r))

ApplyRefresh ==
    \E s \in steps, pv \in BOOLEAN, r \in ReadResponses :
        /\ s.kind = "Refresh"
        /\ Applied(s, pv, r, RefreshStepApply(s, pv, r))

ApplyImport ==
    \E s \in steps, pv \in BOOLEAN, r \in ImportResponses :
        /\ s.kind = "Import"
        /\ r.env # "ok" => (s.pending /\ old = NoState /\ new.Parent # RootStack)
        /\ Applied(s, pv, r, ImportStepApply(s, pv, r))

\* The executor retires the applied step: after persisting its effects it
\* invokes the StepCompleteFunc, when Apply returned one and no hard error.
\* Only RefreshStep's callback touches state: it closes the done channel.
Commit ==
    /\ aborted = ""
    /\ last # NoResult
    /\ last' = NoResult
    /\ IF last.complete /\ (last.err = NilErr \/ last.status = StatusPartialFailure) /\ last.step.kind = "Refresh"
       THEN IF done = "open"
            THEN done' = "closed" /\ aborted' = ""
            ELSE done' = done /\ aborted' = "close of closed channel"
       ELSE UNCHANGED <<done, aborted>>
    /\ UNCHANGED <<old, new, steps, now, budget>>
    /\ UNCHANGED <<op, constraint, shown>>

Construction ==
    \/ NewSameStep
    \/ NewSkippedCreateStep
    \/ NewCreateStep
    \/ NewCreateReplacementStep
    \/ NewDeleteStep
    \/ NewDeleteReplacementStep
    \/ NewRemovePendingReplaceStep
    \/ NewUpdateStep
    \/ NewReplaceStep
    \/ NewReadStep
    \/ NewReadReplacementStep
    \/ NewRefreshStep
    \/ NewImportStep
    \/ NewImportReplacementStep
    \/ newImportDeploymentStep

Next ==
    \/ Construction
    \/ ApplySame
    \/ ApplyCreate
    \/ ApplyDelete
    \/ ApplyRemovePendingReplace
    \/ ApplyUpdate
    \/ ApplyReplace
    \/ ApplyRead
    \/ ApplyRefresh
    \/ ApplyImport
    \/ Commit

(***************************************************************************)
(* Initial states                                                          *)
(***************************************************************************)
\* a state of the prior snapshot: created at instant 0, modified at 1
OldOf(custom, type, provider, id, external, protect, retain, deletedWith, del, pendingReplacement) ==
    NewState(type, URNa, custom, del, id, PM1, PM1, RootStack, protect, external, <<>>, provider, pendingReplacement, "", retain, deletedWith, At(0), At(1))

\* a desired state, as the program registered it
NewOf(custom, type, provider, id, external, del, inputs, parent) ==
    NewState(type, URNa, custom, del, id, inputs, NilPM, parent, FALSE, external, <<>>, provider, FALSE, "", FALSE, "", NoTime, NoTime)

\* (Type, Provider) pairs: every outcome of provider resolution
TypeProviders ==
    {<<ResourceType, RefOK>>, <<ResourceType, "">>, <<ResourceType, RefUnknown>>,
     <<ResourceType, RefDenied>>, <<ResourceType, RefBad>>, <<ProviderType, "">>, <<ProviderType, RefOK>>,
     <<ProviderType, RefBad>>}

\* (Delete, PendingReplacement) pairs of a snapshot state: never both
DeleteFlags == {<<FALSE, FALSE>>, <<TRUE, FALSE>>, <<FALSE, TRUE>>}

\* snapshot states for the steps that need no desired state
DeleteOlds ==
    {OldOf(custom, tp[1], tp[2], IF custom THEN "i1" ELSE "", external, protect, retain, dw, df[1], df[2]) :
        custom \in BOOLEAN, external \in BOOLEAN, protect \in BOOLEAN, retain \in BOOLEAN,
        dw \in {"", URNb}, df \in DeleteFlags,
        tp \in {<<ResourceType, RefOK>>, <<ResourceType, RefUnknown>>, <<ProviderType, "">>}}

\* snapshot states met by a registration
RegisterOlds ==
    {NoState,
     OldOf(TRUE, ResourceType, RefOK, "i1", FALSE, FALSE, FALSE, "", FALSE, FALSE),
     OldOf(TRUE, ResourceType, RefOK, "i0", FALSE, FALSE, FALSE, "", FALSE, FALSE),
     OldOf(TRUE, ResourceType, RefOK, "i1", TRUE, FALSE, FALSE, "", FALSE, FALSE),
     OldOf(TRUE, ResourceType, RefOK, "i1", FALSE, FALSE, FALSE, "", TRUE, FALSE),
     OldOf(TRUE, ResourceType, RefOK, "i1", FALSE, FALSE, FALSE, "", FALSE, TRUE),
     OldOf(TRUE, ResourceType, RefOK, "", FALSE, FALSE, FALSE, "", FALSE, FALSE),
     OldOf(TRUE, ResourceType, "", "i1", FALSE, FALSE, FALSE, "", FALSE, FALSE),
     OldOf(FALSE, ResourceType, "", "", FALSE, FALSE, FALSE, "", FALSE, FALSE)}

\* (ID, External) pairs of a desired state: to create, to read, to import
IDExternals ==
    {<<"", FALSE>>, <<"", TRUE>>, <<"i1", TRUE>>, <<UnknownStringValue, TRUE>>, <<"i1", FALSE>>}

RegisterNews ==
    {NewOf(custom, tp[1], tp[2], ie[1], ie[2], FALSE, PM2, RootStack) :
        custom \in BOOLEAN, tp \in TypeProviders, ie \in IDExternals}
    \cup {NewOf(TRUE, ResourceType, RefOK, "", FALSE, TRUE, PM2, RootStack)}
    \cup {NewOf(custom, ResourceType, RefOK, id, FALSE, FALSE, inputs, parent) :
            custom \in BOOLEAN, id \in {"", "i1"}, inputs \in {EmptyPM, NilPM, PM1}, parent \in {RootStack, URNb}}
    \cup {NewOf(TRUE, ProviderType, "", "i1", FALSE, FALSE, EmptyPM, RootStack)}
    \cup {NewOf(TRUE, ResourceType, RefOK, "i1", TRUE, FALSE, PM1, RootStack)}

InitWith(olds, news, n) ==
    /\ old \in olds
    /\ new \in news
    /\ steps = {}
    /\ last = NoResult
    /\ now = 2
    /\ aborted = ""
    /\ budget = n
    /\ done = "none"
    /\ op = ""
    /\ constraint = ""
    /\ shown = NoShown

\* One step of any kind is constructed and applied, from every state above.
Init ==
    \/ InitWith(DeleteOlds, {NoState}, 1)
    \/ InitWith(RegisterOlds, RegisterNews, 1)

Spec == Init /\ [][Next]_vars

\* snapshot states and desired states of a replacement
ReplaceOlds ==
    {OldOf(TRUE, ResourceType, RefOK, "i1", external, FALSE, FALSE, "", df[1], df[2]) :
        external \in BOOLEAN, df \in DeleteFlags}

ReplaceNews ==
    {NewOf(TRUE, ResourceType, RefOK, ie[1], ie[2], FALSE, PM2, RootStack) :
        ie \in {<<"", FALSE>>, <<"i1", TRUE>>, <<"i1", FALSE>>}}

\* The generator constructs up to MaxSteps steps of a replacement, which the
\* executor applies one at a time in any order.
InitSeq == InitWith(ReplaceOlds, ReplaceNews, MaxSteps)

NextSeq ==
    \/ NewCreateReplacementStep
    \/ NewReplaceStep
    \/ NewDeleteReplacementStep
    \/ NewReadReplacementStep
    \/ NewImportReplacementStep
    \/ NewRefreshStep
    \/ ApplyCreate
    \/ ApplyReplace
    \/ ApplyDelete
    \/ ApplyRead
    \/ ApplyImport
    \/ ApplyRefresh
    \/ Commit

SpecSeq == InitSeq /\ [][NextSeq]_vars

\* the ops a caller may hand to the presentation helpers: the fifteen of
\* StepOps, and two strings that are no step op
OpArgs == {StepOps[i] : i \in 1..Len(StepOps)} \cup {"", "destroy"}

\* A call of a presentation helper on op: what it returns is kept, and a
\* contract.Failf ends the process.
Show(fn, res) ==
    /\ aborted = ""
    /\ shown = NoShown
    /\ IF res.failed # ""
       THEN aborted' = res.failed /\ shown' = shown
       ELSE aborted' = aborted /\ shown' = [fn |-> fn, result |-> res.value]
    /\ UNCHANGED <<old, new, steps, last, now, budget, done, op, constraint>>

ShowColor == Show("Color", Color(op))

ShowRawPrefix == Show("RawPrefix", RawPrefix(op))

ShowPastTense == Show("PastTense", PastTense(op))

ShowSuffix == Show("Suffix", Suffix(op))

AskConstrainedTo == Show("ConstrainedTo", Returns(ConstrainedTo(op, constraint)))

\* Every helper is called on every op, and ConstrainedTo on every pair.
InitOps ==
    /\ old = NoState
    /\ new = NoState
    /\ steps = {}
    /\ last = NoResult
    /\ now = 2
    /\ aborted = ""
    /\ budget = 0
    /\ done = "none"
    /\ op \in OpArgs
    /\ constraint \in OpArgs
    /\ shown = NoShown

NextOps ==
    \/ ShowColor
    \/ ShowRawPrefix
    \/ ShowPastTense
    \/ ShowSuffix
    \/ AskConstrainedTo

SpecOps == InitOps /\ [][NextOps]_vars

(***************************************************************************)
(* Properties                                                              *)
(***************************************************************************)
\* an Apply of a step of this kind has returned and is not yet retired
Returned(kind) == last # NoResult /\ last.step.kind = kind

\* the RPCs of the given names among those the Apply issued
CallsOf(rpcs) == {i \in 1..Len(last.calls) : last.calls[i].rpc \in rpcs}

\* C1: for every step kind, when Apply returns a non-nil error with a status
\* other than PartialFailure, the StepCompleteFunc it returns is nil.
C1_HardErrorNilComplete ==
    last # NoResult =>
        ((last.err # NilErr /\ last.status # StatusPartialFailure) => ~last.complete)

\* the provider's answer to a Create, Update or Read is a partial failure
\* carrying an InitError, met by a custom resource whose provider resolves
\* (for a Create outside preview the ID is non-empty, for a Read the
\* resource exists)
PartialInitFailure ==
    /\ last # NoResult
    /\ last.step.kind \in {"Create", "Update", "Read"}
    /\ last.newBefore.Custom
    /\ getProvider(last.newBefore.Type, last.newBefore.Provider) = NilErr
    /\ last.resp.err = InitError(Reasons)
    /\ last.resp.rst = StatusPartialFailure
    /\ (last.step.kind = "Create" /\ ~last.preview) => last.resp.id # ""
    /\ last.step.kind = "Read" => ~last.resp.outs.nil

\* C2: a partial failure carrying an InitError leaves the reasons in
\* new.InitErrors, and Apply returns PartialFailure, a non-nil Complete and
\* the provider's error.
C2_PartialFailureRoundTrip ==
    PartialInitFailure =>
        /\ new.InitErrors = Reasons
        /\ last.status = StatusPartialFailure
        /\ last.complete
        /\ last.err = last.resp.err

C2_Witness ==
    /\ PartialInitFailure
    /\ last.step.kind = "Read"
    /\ new.InitErrors = Reasons
    /\ last.complete

DeleteMatrix ==
    /\ ~last.preview
    /\ ~last.oldBefore.External
    /\ ~last.oldBefore.RetainOnDelete
    /\ ~(last.oldBefore.DeletedWith # ""
         /\ <<last.oldBefore.DeletedWith, TRUE>> \in last.step.otherDeletions.m)
    /\ last.oldBefore.Custom

\* a delete that Protect does not block
DeleteUnblocked == Returned("Delete") /\ (last.step.replacing \/ ~last.oldBefore.Protect)

\* the one Delete RPC the step issues
DeleteCall ==
    Call("Delete", last.oldBefore.URN, last.oldBefore.ID, last.oldBefore.Inputs,
         last.oldBefore.Outputs, last.oldBefore.CustomTimeouts.Delete, FALSE)

NoCallAndDone ==
    /\ last.calls = <<>>
    /\ last.status = StatusOK
    /\ last.complete
    /\ last.err = NilErr

\* C4 as stated: an unblocked delete calls the provider's Delete exactly
\* once iff the matrix says so, and in every other case makes no call and
\* returns (OK, non-nil Complete, nil).
C4_DeleteMatrixIff ==
    DeleteUnblocked =>
        IF DeleteMatrix THEN last.calls = <<DeleteCall>> ELSE NoCallAndDone

\* C4: an unblocked delete calls the provider's Delete exactly once, with
\* old's URN, ID, inputs, outputs and delete timeout, iff the matrix says so
\* and old's provider resolves; when the matrix says so and the provider
\* does not resolve, no call is made and Apply returns (OK, nil, the
\* resolution error); in every other case no call is made and Apply returns
\* (OK, non-nil Complete, nil).
C4_DeleteMatrix ==
    DeleteUnblocked =>
        LET perr == getProvider(last.oldBefore.Type, last.oldBefore.Provider)
        IN  IF DeleteMatrix
            THEN IF perr = NilErr
                 THEN last.calls = <<DeleteCall>>
                 ELSE /\ last.calls = <<>>
                      /\ last.status = StatusOK
                      /\ ~last.complete
                      /\ last.err = perr
            ELSE NoCallAndDone

C4_Witness ==
    /\ DeleteUnblocked
    /\ DeleteMatrix
    /\ last.oldBefore.DeletedWith = URNb
    /\ <<URNb, FALSE>> \in last.step.otherDeletions.m
    /\ last.calls = <<DeleteCall>>
    /\ last.complete

\* C5: a non-replacing delete of a protected state returns (OK, nil, a
\* delete-protected error naming the URN) without calling the provider,
\* whatever preview is; a replacing delete of the same state is not blocked:
\* it returns no delete-protected error and, when the provider does not
\* fail, (OK, non-nil Complete, nil).
C5_Protect ==
    (Returned("Delete") /\ last.oldBefore.Protect) =>
        IF ~last.step.replacing
        THEN /\ last.status = StatusOK
             /\ ~last.complete
             /\ last.err = deleteProtectedError(last.oldBefore.URN)
             /\ last.calls = <<>>
        ELSE /\ last.err.kind # "deleteProtectedError"
             /\ (last.calls = <<>> \/ last.resp.err = NilErr) =>
                    \/ last.status = StatusOK /\ last.complete /\ last.err = NilErr
                    \/ /\ DeleteMatrix
                       /\ last.err = getProvider(last.oldBefore.Type, last.oldBefore.Provider)
                       /\ last.err # NilErr

C5_Witness ==
    /\ Returned("Delete")
    /\ last.oldBefore.Protect
    /\ last.step.replacing
    /\ last.calls # <<>>
    /\ last.complete

\* a state has both flags at once
BothFlags(rs) == rs # NoState /\ rs.PendingReplacement /\ rs.Delete

\* C6: starting from states in which PendingReplacement and Delete are not
\* both set, no sequence of constructions and Applies of replacement and
\* refresh steps leaves a state with PendingReplacement and Delete both set.
C6_NeverBothFlags ==
    /\ ~BothFlags(old)
    /\ ~BothFlags(new)
    /\ last # NoResult => (~BothFlags(last.stepOld) /\ ~BothFlags(last.stepNew))

\* the step just applied is the create of a replacement that pends the
\* deletion of old, and it returned a Complete
CreateReplacementCompletes ==
    /\ last = NoResult
    /\ last' # NoResult
    /\ last'.step.kind = "Create"
    /\ last'.step.replacing
    /\ last'.step.pending
    /\ last'.complete

\* a ReplaceStep with pendingDelete is applied to an old state marked Delete
ReplaceAfterMark ==
    /\ old # NoState
    /\ old.Delete
    /\ \E s \in steps : s.kind = "Replace" /\ s.pending /\ steps' = steps \ {s}
    /\ now' = now + 1

\* C7: the Apply of a create-replacement with pendingDelete that returns a
\* Complete leaves old.Delete true; old.Delete stays true from then on; and
\* a ReplaceStep with pendingDelete applied to such an old state passes its
\* assertion and returns (OK, non-nil Complete, nil), with no provider call
\* and no state changed.
C7_ReplaceAfterCreate ==
    [][/\ CreateReplacementCompletes => old'.Delete
       /\ (old # NoState /\ old.Delete) => (old' # NoState /\ old'.Delete)
       /\ ReplaceAfterMark =>
            /\ aborted' = ""
            /\ last' # NoResult
            /\ last'.step.kind = "Replace"
            /\ last'.status = StatusOK
            /\ last'.complete
            /\ last'.err = NilErr
            /\ last'.calls = <<>>
            /\ old' = old
            /\ new' = new]_vars

\* a ReplaceStep with pendingDelete has returned a Complete for an old state
\* that a create-replacement, applied at the instant before, marked (the
\* new state has the ID the Create returned, its nil outputs, the inputs
\* untouched and the Create's timestamps)
C7_Witness ==
    /\ Returned("Replace")
    /\ last.step.pending
    /\ last.complete
    /\ last.oldBefore.Delete
    /\ last.newBefore.Created = At(last.at - 1)
    /\ last.newBefore.Modified = At(last.at - 1)
    /\ last.newBefore.ID = "id-7"
    /\ last.newBefore.Inputs = PM2
    /\ last.newBefore.Outputs = NilPM
    /\ old = last.oldBefore
    /\ new = last.newBefore

\* C8: a CreateStep.Apply that returns a Complete leaves new.Created and
\* new.Modified both at the apply instant; for a custom resource new.ID and
\* new.Outputs are the ID and outputs the provider's Create returned.
C8_CreateStamps ==
    (Returned("Create") /\ last.complete) =>
        /\ new.Created = At(last.at)
        /\ new.Modified = At(last.at)
        /\ last.newBefore.Custom =>
              /\ last.calls # <<>>
              /\ new.ID = last.resp.id
              /\ new.Outputs = last.resp.outs

C8_Witness ==
    /\ Returned("Create")
    /\ last.complete
    /\ last.newBefore.Custom
    /\ last.newBefore.Created = NoTime
    /\ new.Created = At(last.at)
    /\ new.ID = "id-7"
    /\ new.Outputs = PM2

\* the provider's Create was called and returned an empty ID
CreateReturnsEmptyID ==
    /\ Returned("Create")
    /\ last.newBefore.Custom
    /\ getProvider(last.newBefore.Type, last.newBefore.Provider) = NilErr
    /\ last.resp.id = ""

\* C9: when the provider's Create returns an empty ID, Apply(preview=false)
\* returns a non-nil error and a nil Complete, PartialFailure included;
\* Apply(preview=true) accepts the empty ID and, unless the Create failed
\* hard, returns a Complete with new.ID empty.
C9_EmptyID ==
    CreateReturnsEmptyID =>
        IF ~last.preview
        THEN last.err # NilErr /\ ~last.complete
        ELSE ~IsHardFailure(last.resp.err, last.resp.rst) => (last.complete /\ new.ID = "")

C9_Witness ==
    /\ CreateReturnsEmptyID
    /\ ~last.preview
    /\ last.resp.rst = StatusPartialFailure
    /\ last.resp.err # NilErr
    /\ ~last.complete
    /\ last.status = StatusPartialFailure

\* C10: after every UpdateStep.Apply, whatever it returned, new.ID is old.ID
\* and new.Created is old.Created.
C10_UpdateKeepsIdentity ==
    Returned("Update") => (new.ID = old.ID /\ new.Created = old.Created)

C10_Witness ==
    /\ Returned("Update")
    /\ last.newBefore.ID # old.ID
    /\ last.newBefore.Created # old.Created
    /\ last.err # NilErr
    /\ ~last.complete
    /\ last.calls = <<>>
    /\ new.ID = old.ID

\* instant a is strictly later than instant b
Later(a, b) == a # NoTime /\ b # NoTime /\ a[1] > b[1]

\* C11: after every UpdateStep.Apply that returns a nil error, for custom
\* and component resources alike, new.Modified is strictly later than
\* old.Modified.
C11_UpdateBumpsModified ==
    (Returned("Update") /\ last.err = NilErr) => Later(new.Modified, old.Modified)

\* C12: SameStep.Apply, whatever preview is, makes no provider
\* Create/Update/Delete/Read call, sets new.ID to old.ID and new.Outputs to
\* old.Outputs, changes nothing on old, and returns (OK, non-nil Complete,
\* nil) when the provider is not re-registered or the re-registration
\* succeeds.
C12_SameRetains ==
    Returned("Same") =>
        /\ CallsOf({"Create", "Update", "Delete", "Read"}) = {}
        /\ last.stepOld = (IF last.step.oldref = "copy" THEN last.step.copy ELSE last.oldBefore)
        /\ new.ID = last.stepOld.ID
        /\ new.Outputs = last.stepOld.Outputs
        /\ old = last.oldBefore
        /\ (last.calls = <<>> \/ last.resp.env = "ok") =>
              (last.status = StatusOK /\ last.complete /\ last.err = NilErr)

C12_Witness ==
    /\ Returned("Same")
    /\ last.step.oldref = "heap"
    /\ last.newBefore.ID # old.ID
    /\ last.newBefore.Outputs # old.Outputs
    /\ new.ID = old.ID
    /\ new.Outputs = old.Outputs
    /\ last.calls # <<>>
    /\ last.complete

\* a refresh has read the resource: old is custom, neither a provider nor
\* pending replacement, its provider resolves and Read did not fail hard
RefreshRead ==
    /\ Returned("Refresh")
    /\ last.oldBefore.Custom
    /\ ~IsProviderType(last.oldBefore.Type)
    /\ ~last.oldBefore.PendingReplacement
    /\ getProvider(last.oldBefore.Type, last.oldBefore.Provider) = NilErr
    /\ ~IsHardFailure(last.resp.err, last.resp.rst)

\* what ResultOp() answers after the Apply
RefreshResultOp == ResultOp(last.stepOld, last.stepNew, last.aliased)

RefreshProduced == Returned("Refresh") /\ last.stepNew # NoState /\ ~last.aliased

\* C14: when a refresh produces a new state, new.Modified differs from
\* old.Modified only if the new state's inputs or outputs differ from the
\* old state's.
C14_ModifiedOnlyOnChange ==
    RefreshProduced =>
        (last.stepNew.Modified # last.oldBefore.Modified =>
            \/ ~DeepEquals(last.stepNew.Inputs, last.oldBefore.Inputs)
            \/ ~DeepEquals(last.stepNew.Outputs, last.oldBefore.Outputs))

\* C15: when the Read of a refresh returns an InitError with PartialFailure
\* and non-nil outputs, Apply returns a nil error, the failure is reported
\* as a warning, and the reasons are the InitErrors of the new state.
C15_RefreshInitError ==
    (RefreshRead /\ last.resp.err = InitError(Reasons) /\ ~last.resp.outs.nil) =>
        /\ last.err = NilErr
        /\ last.warnings # <<>>
        /\ last.stepNew # NoState
        /\ last.stepNew.InitErrors = Reasons

C15_Witness ==
    /\ RefreshRead
    /\ last.resp.err = InitError(Reasons)
    /\ last.resp.rst = StatusPartialFailure
    /\ ~last.resp.outs.nil
    /\ last.oldBefore.InitErrors = <<>>
    /\ last.stepNew.InitErrors = Reasons
    /\ last.err = NilErr

\* C16: a RefreshStep constructed with a completion channel returns a
\* non-nil Complete from every Apply that returns without error.
C16_RefreshComplete ==
    (Returned("Refresh") /\ last.step.flag /\ last.err = NilErr) => last.complete

\* C17: a refresh of a component, a provider or a pending-replace resource
\* makes no provider call, leaves New() the very state Old() is, with no
\* field changed, returns status OK and a nil error, and ResultOp() is same.
C17_RefreshShortCircuit ==
    (/\ Returned("Refresh")
     /\ \/ ~last.oldBefore.Custom
        \/ IsProviderType(last.oldBefore.Type)
        \/ last.oldBefore.PendingReplacement) =>
        /\ last.calls = <<>>
        /\ last.aliased
        /\ last.stepNew = last.oldBefore
        /\ last.stepOld = last.oldBefore
        /\ old = last.oldBefore
        /\ last.status = StatusOK
        /\ last.err = NilErr
        /\ RefreshResultOp = OpSame

C17_Witness ==
    /\ Returned("Refresh")
    /\ last.oldBefore.Custom
    /\ ~IsProviderType(last.oldBefore.Type)
    /\ last.oldBefore.PendingReplacement
    /\ last.calls = <<>>
    /\ last.stepNew = old
    /\ last.complete

\* the planned-import checks stop the step: the URN is among the old
\* states, or the parent is not the root stack and not among the new states
PlannedImportRefused ==
    /\ Returned("Import")
    /\ last.step.pending
    /\ \/ last.oldBefore # NoState
       \/ last.newBefore.Parent # RootStack /\ last.resp.env = "parent unknown"

\* an import of a custom resource has issued its Read
ImportRead ==
    /\ Returned("Import")
    /\ ~PlannedImportRefused
    /\ last.newBefore.Custom
    /\ getProvider(last.newBefore.Type, last.newBefore.Provider) = NilErr

\* a non-planned import whose checked inputs differ from what was read
ImportDiffers ==
    /\ ImportRead
    /\ ~last.step.pending
    /\ last.resp.err = NilErr \/ last.resp.err.kind = "InitError"
    /\ ~last.resp.outs.nil
    /\ ~last.resp.ins.nil
    /\ last.resp.ignore = "ok"
    /\ last.resp.check = "ok"
    /\ last.resp.diff = "changes"

\* C18: a non-planned import whose checked inputs differ from the resource
\* read: Apply(preview=true) warns that importing will fail and returns a
\* nil error with a Complete; Apply(preview=false) returns the error "inputs
\* to import do not match the existing resource".
C18_ImportMismatch ==
    ImportDiffers =>
        IF last.preview
        THEN /\ last.warnings = <<"inputs to import do not match the existing resource; importing this resource will fail">>
             /\ last.err = NilErr
             /\ last.complete
        ELSE last.err = Err("inputs to import do not match the existing resource")

C18_Witness ==
    /\ ImportDiffers
    /\ last.preview
    /\ last.warnings # <<>>
    /\ last.err = NilErr
    /\ last.complete

\* C19: a planned import whose URN is among the old states, or whose parent
\* is not the root stack and not among the new states, returns (OK, nil
\* Complete, error) before any provider call and leaves the new state as it
\* was.
C19_PlannedImportRefused ==
    PlannedImportRefused =>
        /\ last.status = StatusOK
        /\ ~last.complete
        /\ last.err # NilErr
        /\ last.calls = <<>>
        /\ new = last.newBefore

C19_Witness ==
    /\ PlannedImportRefused
    /\ last.oldBefore # NoState
    /\ last.newBefore.Custom
    /\ getProvider(last.newBefore.Type, last.newBefore.Provider) = NilErr
    /\ last.err = Err("resource already exists")
    /\ last.calls = <<>>

\* C20: an import of a custom resource whose Read returns no outputs, or
\* outputs but no inputs, fails with a nil Complete, and new.Outputs,
\* new.Created, new.Modified and the original state's Delete flag stay as
\* they were.
C20_ImportReadMissing ==
    (ImportRead /\ (last.resp.outs.nil \/ last.resp.ins.nil)) =>
        /\ last.err # NilErr
        /\ ~last.complete
        /\ (last.resp.err = NilErr \/ last.resp.err.kind = "InitError") =>
              last.err = (IF last.resp.outs.nil THEN Err("resource does not exist")
                          ELSE Err("provider does not support importing resources"))
        /\ new.Outputs = last.newBefore.Outputs
        /\ new.Created = last.newBefore.Created
        /\ new.Modified = last.newBefore.Modified
        /\ old = last.oldBefore

C20_Witness ==
    /\ ImportRead
    /\ ~last.resp.outs.nil
    /\ last.resp.ins.nil
    /\ last.step.replacing
    /\ last.err = Err("provider does not support importing resources")
    /\ ~old.Delete
    /\ new.Created = NoTime

\* C21: an import-replacement sets the original state's Delete flag exactly
\* when Apply returns a nil error; on every error path the original state
\* is as it was.
C21_ImportPendsOriginal ==
    (Returned("Import") /\ last.step.replacing) =>
        IF last.err = NilErr
        THEN old = [last.oldBefore EXCEPT !.Delete = TRUE]
        ELSE old = last.oldBefore

C21_Witness ==
    /\ Returned("Import")
    /\ last.step.replacing
    /\ last.preview
    /\ last.resp.diff = "changes"
    /\ last.err = NilErr
    /\ ~last.oldBefore.Delete
    /\ old.Delete

\* the Read of an import returned an InitError with PartialFailure and the
\* import otherwise succeeds
ImportInitFailure ==
    /\ ImportRead
    /\ last.resp.err = InitError(Reasons)
    /\ last.resp.rst = StatusPartialFailure
    /\ ~last.resp.outs.nil
    /\ ~last.resp.ins.nil
    /\ last.resp.ignore = "ok"
    /\ last.resp.check = "ok"
    /\ last.resp.diff = "none"

\* C22: when the Read of an import returns an InitError with PartialFailure
\* and the import otherwise succeeds, the reasons are in new.InitErrors,
\* Apply returns a non-nil Complete, and the init error is the error Apply
\* returns.
C22_ImportInitError ==
    ImportInitFailure =>
        /\ new.InitErrors = Reasons
        /\ last.complete
        /\ last.err = last.resp.err

\* a planned import of a custom resource has read the resource and has
\* something to import
PlannedImportRead ==
    /\ ImportRead
    /\ last.step.pending
    /\ last.resp.err = NilErr \/ last.resp.err.kind = "InitError"
    /\ ~last.resp.outs.nil
    /\ ~last.resp.ins.nil

\* the Read inputs the import directive of the step selects: all of them
\* when it names no properties, those it names otherwise
DirectiveInputs ==
    IF last.step.paths = <<>>
    THEN last.resp.ins.kv
    ELSE {e \in last.resp.ins.kv : \E i \in 1..Len(last.step.paths) : last.step.paths[i] = e[1]}

\* C23: in a planned import of a custom resource, new.Inputs after Apply
\* are the Read inputs the directive selects; validation failures reported
\* by Check never fail the step, which still returns a Complete and a nil
\* error, while an error of Check itself does fail it.
C23_PlannedImportInputs ==
    /\ aborted \notin {"assignment to entry in nil map", "failed to parse provider reference"}
    /\ PlannedImportRead =>
          IF last.resp.check = "error"
          THEN last.err # NilErr /\ ~last.complete
          ELSE /\ last.complete
               /\ last.err = NilErr
               /\ new.Inputs.kv = DirectiveInputs

\* C24: a read whose new.ID is the unknown sentinel makes no provider call,
\* sets new.Outputs to the empty map, leaves new.ID as it was and returns
\* (OK, non-nil Complete, nil).
C24_ReadUnknownID ==
    (Returned("Read") /\ last.newBefore.ID = UnknownStringValue) =>
        /\ last.calls = <<>>
        /\ new.Outputs = EmptyPM
        /\ new.ID = UnknownStringValue
        /\ last.status = StatusOK
        /\ last.complete
        /\ last.err = NilErr

C24_Witness ==
    /\ Returned("Read")
    /\ last.newBefore.ID = UnknownStringValue
    /\ last.newBefore.Outputs = NilPM
    /\ new.Outputs = EmptyPM
    /\ last.calls = <<>>
    /\ last.complete

\* a read with a known ID has called the provider's Read
ReadCalled ==
    /\ Returned("Read")
    /\ last.newBefore.ID # UnknownStringValue
    /\ getProvider(last.newBefore.Type, last.newBefore.Provider) = NilErr

\* C25: a read with a known ID whose Read returns no outputs fails with a
\* nil Complete and leaves new.Outputs, new.ID and old (its Delete flag
\* included) as they were; when Read returns outputs, new.Outputs are those
\* outputs and new.ID is the returned ID if it is non-empty.
C25_ReadOutputs ==
    ReadCalled =>
        IF last.resp.outs.nil
        THEN /\ last.err # NilErr
             /\ ~last.complete
             /\ new.Outputs = last.newBefore.Outputs
             /\ new.ID = last.newBefore.ID
             /\ old = last.oldBefore
        ELSE /\ new.Outputs = last.resp.outs
             /\ new.ID = (IF last.resp.id # "" THEN last.resp.id ELSE last.newBefore.ID)

C25_Witness ==
    /\ ReadCalled
    /\ last.step.replacing
    /\ last.resp.outs.nil
    /\ last.resp.err = NilErr
    /\ ~last.complete
    /\ ~old.Delete

\* the old state a read step holds
ReadOld == IF last.step.oldref = "heap" THEN last.oldBefore ELSE NoState

\* C26: after a read that returns a Complete: with an old state,
\* new.Created is old.Created and new.Modified is old.Modified, unless new's
\* inputs or outputs differ from old's, when new.Modified is the apply
\* instant; without an old state, new.Created and new.Modified are as they
\* were.
C26_ReadTimestamps ==
    (Returned("Read") /\ last.complete) =>
        IF ReadOld # NoState
        THEN /\ new.Created = ReadOld.Created
             /\ new.Modified =
                  (IF ~DeepEquals(new.Inputs, ReadOld.Inputs) \/ ~DeepEquals(new.Outputs, ReadOld.Outputs)
                   THEN At(last.at) ELSE ReadOld.Modified)
        ELSE /\ new.Created = last.newBefore.Created
             /\ new.Modified = last.newBefore.Modified

\* a read found the resource exactly as the old state records it
C26_Witness ==
    /\ Returned("Read")
    /\ last.complete
    /\ ReadOld # NoState
    /\ last.calls # <<>>
    /\ DeepEquals(new.Inputs, ReadOld.Inputs)
    /\ DeepEquals(new.Outputs, ReadOld.Outputs)
    /\ new.Modified = ReadOld.Modified
    /\ new.Created = ReadOld.Created
    /\ last.newBefore.Created = NoTime

\* C27: a read-replacement is only ever constructed with an old state that
\* is not nil and not External; every Apply of it that returns a Complete
\* has set old.Delete; a plain read never changes old.
C27_ReadReplacement ==
    /\ (\E s \in steps : s.kind = "Read" /\ s.replacing) => (old # NoState /\ ~old.External)
    /\ (Returned("Read") /\ last.step.replacing /\ last.complete) =>
          (old = [last.oldBefore EXCEPT !.Delete = TRUE] /\ ~last.oldBefore.External)
    /\ (Returned("Read") /\ ~last.step.replacing) => old = last.oldBefore

C27_Witness ==
    /\ Returned("Read")
    /\ last.step.replacing
    /\ last.newBefore.ID = UnknownStringValue
    /\ last.complete
    /\ ~last.oldBefore.Delete
    /\ old.Delete

\* C28: NewDeleteReplacementStep, on an old state meeting its other
\* preconditions, aborts only when pendingReplace and old.Delete are both
\* true; the assertion never fires on an old state whose Delete is false.
C28_AbortsOnlyWhenBoth ==
    aborted = "cannot be pending replacement and deletion at the same time" => old.Delete

\* the table of allowed (op, constraint) pairs
ConstraintTable ==
    {<<c, c>> : c \in {OpSame, OpDelete, OpRead, OpReadReplacement, OpRefresh, OpReadDiscard,
                       OpDiscardReplaced, OpRemovePendingReplace, OpImport, OpImportReplacement}}
    \cup {<<OpSame, OpCreate>>, <<OpCreate, OpCreate>>}
    \cup {<<OpSame, OpUpdate>>, <<OpUpdate, OpUpdate>>}
    \cup {<<o, c>> : o \in {OpSame, OpUpdate}, c \in {OpReplace, OpCreateReplacement, OpDeleteReplaced}}
    \cup {<<c, c>> : c \in {OpReplace, OpCreateReplacement, OpDeleteReplaced}}

Asked == shown # NoShown /\ shown.fn = "ConstrainedTo"

\* C29: ConstrainedTo(op, constraint) is true exactly for the pairs of the
\* table: ten constraints allow only themselves, create and update also
\* allow same, the three replacement constraints allow same, update and
\* themselves; a constraint that is no step op allows nothing.
C29_ConstrainedTo ==
    Asked => (shown.result <=> <<op, constraint>> \in ConstraintTable)

\* an update is allowed under a delete-replaced constraint
C29_Witness ==
    /\ Asked
    /\ op = OpUpdate
    /\ constraint = OpDeleteReplaced
    /\ shown.result

Presented == shown # NoShown /\ shown.fn \in {"Color", "RawPrefix", "Suffix", "PastTense"}

\* C30: Color, RawPrefix, Suffix and PastTense return a non-empty string
\* for each of the fifteen ops of StepOps and abort for any other op.
C30_Presentation ==
    /\ Presented => (op \in {StepOps[i] : i \in 1..Len(StepOps)} /\ shown.result # "")
    /\ aborted # "" => op \notin {StepOps[i] : i \in 1..Len(StepOps)}

\* a step of one of the kinds whose desired state must not carry an ID,
\* constructed and not yet applied
ConstructedWithoutID ==
    /\ last = NoResult
    /\ \E s \in steps : s.kind \in {"Same", "Create", "Update", "Replace"}

\* C31: NewSameStep, NewSkippedCreateStep, NewCreateStep,
\* NewCreateReplacementStep, NewUpdateStep and NewReplaceStep abort on a
\* desired state whose ID is non-empty, so a step they constructed has a
\* desired state with an empty ID.
C31_NewWithoutID ==
    ConstructedWithoutID => new.ID = ""

\* the state whose Type and Provider the applied step resolves: the desired
\* state of a Create, Update, Read or Import, the old state of a Delete or
\* Refresh
Resolved == IF last.step.kind \in {"Delete", "Refresh"} THEN last.oldBefore ELSE last.newBefore

\* the Apply that returned was on a path that asks for the provider
NeedsProvider ==
    /\ last # NoResult
    /\ CASE last.step.kind \in {"Create", "Update", "Import"} -> last.newBefore.Custom
         [] last.step.kind = "Delete" ->
                /\ DeleteUnblocked
                /\ DeleteCallsProvider(last.preview, last.oldBefore, last.step.otherDeletions)
         [] last.step.kind = "Read" -> ~ReadSkipsProvider(last.newBefore.ID)
         [] last.step.kind = "Refresh" -> ~RefreshShortCircuits(last.oldBefore)
         [] OTHER -> FALSE

\* the reference does not parse, denies defaults or is not registered
Unresolvable(ref) == ~ParseReferenceOK(ref) \/ IsDenyDefaultsProvider(ref) \/ ~RegistryHas(ref)

ResolutionErrors == {Err("bad provider reference"), Err("default provider denied"), Err("unknown provider")}

\* C32: a step that needs a provider and whose resource is provider-typed
\* never fails to resolve it, whatever its Provider reference; for any other
\* resource an unparseable, deny-default or unregistered reference makes
\* Apply return (OK, nil Complete, error) without any provider RPC.
C32_ProviderResolution ==
    NeedsProvider =>
        IF IsProviderType(Resolved.Type)
        THEN last.err \notin ResolutionErrors
        ELSE Unresolvable(Resolved.Provider) =>
                /\ last.status = StatusOK
                /\ ~last.complete
                /\ last.err # NilErr
                /\ last.calls = <<>>

\* a create of a resource whose provider is not in the registry
C32_Witness ==
    /\ Returned("Create")
    /\ NeedsProvider
    /\ ~IsProviderType(Resolved.Type)
    /\ Resolved.Provider = RefUnknown
    /\ last.err = Err("unknown provider")
    /\ last.calls = <<>>

\* a provider-typed resource with a reference that does not parse is created
C32_WitnessProviderTyped ==
    /\ Returned("Create")
    /\ NeedsProvider
    /\ IsProviderType(Resolved.Type)
    /\ Resolved.Provider = RefBad
    /\ last.calls # <<>>

\* what Apply(pv) of step s returns on the provider's answers r
ApplyOf(s, pv, r) ==
    CASE s.kind = "Same" -> SameStepApply(s, pv, r)
      [] s.kind = "Create" -> CreateStepApply(s, pv, r)
      [] s.kind = "Delete" -> DeleteStepApply(s, pv, r)
      [] s.kind = "RemovePendingReplace" -> RemovePendingReplaceStepApply(s, pv, r)
      [] s.kind = "Update" -> UpdateStepApply(s, pv, r)
      [] s.kind = "Replace" -> ReplaceStepApply(s, pv, r)
      [] s.kind = "Read" -> ReadStepApply(s, pv, r)
      [] s.kind = "Refresh" -> RefreshStepApply(s, pv, r)
      [] s.kind = "Import" -> ImportStepApply(s, pv, r)

\* the answers the provider may give to the calls of step s
AnswersTo(s) ==
    CASE s.kind = "Same" -> {r \in SameResponses : r.env # "ok" => (SameRegistersProvider(s, new) /\ s.flag)}
      [] s.kind = "Create" -> CreateResponses
      [] s.kind = "Delete" -> DeleteResponses
      [] s.kind = "Update" -> UpdateResponses
      [] s.kind \in {"Read", "Refresh"} -> ReadResponses
      [] s.kind = "Import" ->
            {r \in ImportResponses : r.env # "ok" => (s.pending /\ old = NoState /\ new.Parent # RootStack)}
      [] OTHER -> {NoResp}

\* Apply(pv) of s on r returns, and returns a Complete callback
Completes(s, pv, r) == ApplyOf(s, pv, r).failed = "" /\ ApplyOf(s, pv, r).complete

\* an Apply(preview=false) has just returned a Complete callback
AppliedForReal == last = NoResult /\ last' # NoResult /\ ~last'.preview /\ last'.complete

\* C33: whenever Apply(preview=false) returns a non-nil Complete, so does
\* Apply(preview=true) on the same step, the same states and the same
\* provider answers.
C33_PreviewCompletes ==
    [][AppliedForReal =>
          \A r \in AnswersTo(last'.step) :
              Completes(last'.step, FALSE, r) => Completes(last'.step, TRUE, r)]_vars

\* a create that the provider answered with an ID, not in preview
C33_Witness ==
    /\ Returned("Create")
    /\ ~last.preview
    /\ last.complete
    /\ last.newBefore.Custom
    /\ last.calls # <<>>
    /\ new.ID = "id-7"

\* the Apply of a SameStep that holds a deployment returned
SameApplied == Returned("Same") /\ last.step.flag

C34_WitnessFails ==
    /\ SameApplied
    /\ ~IsSkippedCreate(last.step)
    /\ last.resp.env = "SameProvider fails"
    /\ ~last.complete

\* a create-replacement with pendingDelete has been applied successfully
PendingDeleteCreated ==
    /\ Returned("Create")
    /\ last.step.replacing
    /\ last.step.pending
    /\ last.complete
    /\ last.err = NilErr

\* C35: once a create-replacement with pendingDelete has been applied
\* successfully, and no delete step has run, old.Delete is already true
\* although the provider's Delete was never called for the old resource: a
\* deployment that stops here records a Delete flag for a live resource.
C35_DeleteFlagBeforeDelete ==
    PendingDeleteCreated =>
        /\ ~last.oldBefore.Delete
        /\ old = [last.oldBefore EXCEPT !.Delete = TRUE]
        /\ CallsOf({"Delete"}) = {}
        /\ steps = {}

\* the replacement was created by the provider and the old resource marked
C35_Witness ==
    /\ PendingDeleteCreated
    /\ CallsOf({"Create"}) # {}
    /\ last.oldBefore.Custom
    /\ ~last.oldBefore.Delete
    /\ old.Delete
    /\ budget = 0

\* C36: whenever RefreshStep.Apply returns a non-nil error, the step's New()
\* is not nil, so ResultOp() does not classify a failed refresh as a delete.
C36_FailedRefreshKeepsNew ==
    (Returned("Refresh") /\ last.err # NilErr) =>
        (last.stepNew # NoState /\ RefreshResultOp # OpDelete)

\* the Apply of a replacement step that marks the old state has succeeded
\* on an old state that was not marked
MarkedByReplacement ==
    /\ last # NoResult
    /\ last.step.replacing
    /\ \/ last.step.kind = "Create" /\ last.step.pending
       \/ last.step.kind \in {"Read", "Import"}
    /\ last.complete
    /\ last.err = NilErr
    /\ last.oldBefore # NoState
    /\ ~last.oldBefore.Delete

\* NewDeleteReplacementStep(old, pendingReplace = false) is accepted on every
\* old state that meets the constructor's other preconditions
DeleteReplacedAccepted ==
    \A od \in OtherDeletionsArgs :
        NewDeleteStepRequires(old, od) => NewDeleteReplacementStepRequires(old, od, FALSE)

\* and is refused whatever otherDeletions is
DeleteReplacedRefused ==
    \A od \in OtherDeletionsArgs : ~NewDeleteReplacementStepRequires(old, od, FALSE)

\* a delete-replaced step has just been constructed with pendingReplace = false
DeleteReplacedConstructed ==
    /\ budget' < budget
    /\ aborted' = ""
    /\ \E s \in steps' \ steps : s.kind = "Delete" /\ s.replacing
    /\ ~old'.PendingReplacement

\* C37: in a create-before-delete replacement, NewDeleteReplacementStep with
\* pendingReplace = false is refused while old.Delete is false and accepted
\* once a create-replacement with pendingDelete, a read-replacement or an
\* import-replacement has been applied successfully to that old state; so a
\* delete-replaced step is only constructed after the old state was marked.
C37_DeleteReplacedAfterMark ==
    /\ []((old # NoState /\ ~old.Delete) => DeleteReplacedRefused)
    /\ [](MarkedByReplacement => (old.Delete /\ DeleteReplacedAccepted))
    /\ [][DeleteReplacedConstructed => old.Delete]_vars

\* the replacement was created, the old state marked by it, and the
\* delete-replaced step then constructed
C37_Witness ==
    /\ \E s \in steps : s.kind = "Delete" /\ s.replacing
    /\ aborted = ""
    /\ last = NoResult
    /\ old.Delete
    /\ ~old.PendingReplacement
    /\ new.ID = "id-7"
    /\ new.Created # NoTime

\* the fields a refresh may change on the state it builds
RefreshedFields == {"ID", "Inputs", "Outputs", "InitErrors", "Modified"}

\* C38: on every path RefreshStep.Apply leaves the old state as it was; the
\* step's new state is nil, the old state itself, or a newly built state
\* that differs from old at most in ID, Inputs, Outputs, InitErrors and
\* Modified.
C38_RefreshFrame ==
    Returned("Refresh") =>
        /\ old = last.oldBefore
        /\ last.stepOld = last.oldBefore
        /\ new = last.newBefore
        /\ \/ last.stepNew = NoState
           \/ last.aliased /\ last.stepNew = last.oldBefore
           \/ /\ ~last.aliased
              /\ \A f \in (DOMAIN last.stepNew) \ RefreshedFields : last.stepNew[f] = last.oldBefore[f]

\* the refresh of a protected resource found a new ID and new outputs
C38_Witness ==
    /\ Returned("Refresh")
    /\ ~last.aliased
    /\ last.stepNew # NoState
    /\ last.oldBefore.Protect
    /\ last.stepNew.ID # last.oldBefore.ID
    /\ last.stepNew.Outputs # last.oldBefore.Outputs
    /\ old = last.oldBefore

\* a create of a custom resource whose provider did not resolve, or whose
\* Create failed with a status other than PartialFailure
CreateFailedHard ==
    /\ Returned("Create")
    /\ last.newBefore.Custom
    /\ \/ last.err \in ResolutionErrors /\ last.calls = <<>>
       \/ /\ last.calls # <<>>
          /\ last.resp.err # NilErr
          /\ last.resp.rst # StatusPartialFailure

\* C39: when provider resolution fails or Create returns an error with a
\* status other than PartialFailure, CreateStep.Apply returns a nil Complete
\* and leaves the new state (ID, Outputs, InitErrors, Created, Modified) and
\* the old state (Delete, in replacement mode) as they were.
C39_CreateFailureFrame ==
    CreateFailedHard =>
        /\ ~last.complete
        /\ last.err # NilErr
        /\ new = last.newBefore
        /\ old = last.oldBefore

\* a create-replacement with pendingDelete whose Create failed outright
C39_Witness ==
    /\ CreateFailedHard
    /\ last.step.replacing
    /\ last.step.pending
    /\ last.calls # <<>>
    /\ last.resp.err = InitError(Reasons)
    /\ last.status = StatusUnknown
    /\ ~old.Delete
    /\ new.InitErrors = <<>>

\* ConstrainedTo was asked about two of the fifteen step ops
AskedOfStepOps ==
    /\ Asked
    /\ op \in {StepOps[i] : i \in 1..Len(StepOps)}
    /\ constraint \in {StepOps[i] : i \in 1..Len(StepOps)}

\* C40: on the fifteen ops of StepOps, ConstrainedTo is a partial order: it
\* holds of every op and itself, holds both ways only of equal ops, and
\* ConstrainedTo(a, b) with ConstrainedTo(b, c) gives ConstrainedTo(a, c).
C40_PartialOrder ==
    AskedOfStepOps =>
        /\ ConstrainedTo(op, op)
        /\ (shown.result /\ ConstrainedTo(constraint, op)) => op = constraint
        /\ \A c \in {StepOps[i] : i \in 1..Len(StepOps)} :
               (shown.result /\ ConstrainedTo(constraint, c)) => ConstrainedTo(op, c)

\* same is constrained to update, update to replace, and same to replace
C40_Witness ==
    /\ AskedOfStepOps
    /\ op = OpSame
    /\ constraint = OpUpdate
    /\ shown.result
    /\ ConstrainedTo(constraint, OpReplace)
    /\ ConstrainedTo(op, OpReplace)

====
